---- MODULE Spec2Model ----
(***************************************************************************)
(* Monopoly LLM benchmark: the rules engine (monopoly_engine.Engine), the  *)
(* replay driver (monopoly_engine.replay) and the decision arbitration     *)
(* pipeline with its runner loop (monopoly_arena.llm_runner.LlmRunner).    *)
(*                                                                         *)
(* Player ids p1..p4 are the integers 1..4, "no player" (None) is 0.       *)
(* A space_key is the integer KEY_BASE + index; any other key is unknown.  *)
(* The engine object is one record; a Python method that mutates the       *)
(* engine and appends to an event list is an operator from engine record   *)
(* to engine record.  The fields events, err, rd and rsi are call-local:   *)
(* the events appended so far by the running call, the ValueError raised   *)
(* ("" when none), and the (decision, decision_space_index) pair returned  *)
(* by the helper that ran last.                                            *)
(***************************************************************************)
EXTENDS Integers, Sequences, FiniteSets, TLC

\* ------------------------------------------------------------------ bounds
MaxTurns == 2
MaxFaults == 2
MaxCalls == 4
MaxBadCalls == 1
MaxReplayTurns == 4

\* ------------------------------------------------------- program constants
JAIL_FINE == 50
HOUSE_LIMIT == 4
HOTEL_HOUSE_EQUIV == 5
CHANCE_REPAIR_HOUSE_COST == 25
CHANCE_REPAIR_HOTEL_COST == 100
COMMUNITY_REPAIR_HOUSE_COST == 40
COMMUNITY_REPAIR_HOTEL_COST == 115
UTILITY_CARD_MULTIPLIER == 10
DEFAULT_STARTING_CASH == 1500
DEFAULT_HOUSES == 32
DEFAULT_HOTELS == 12
EXPECTED_PLAYER_COUNT == 4
BOARD_SIZE == 40
PASS_GO_AMOUNT == 200
START_TS_MS == 0
TS_STEP_MS == 250
KEY_BASE == 100

NoPlayer == 0
Players == 1..EXPECTED_PLAYER_COUNT
Spaces == 0..(BOARD_SIZE - 1)

\* ---------------------------------------------------------------- board data
\* contracts/data/board.json as loaded by board.py (the standard board).
SpaceKind(i) ==
    CASE i = 0 -> "GO"
      [] i \in {2, 17, 33} -> "COMMUNITY_CHEST"
      [] i \in {7, 22, 36} -> "CHANCE"
      [] i \in {4, 38} -> "TAX"
      [] i \in {5, 15, 25, 35} -> "RAILROAD"
      [] i \in {12, 28} -> "UTILITY"
      [] i = 10 -> "JAIL"
      [] i = 20 -> "FREE_PARKING"
      [] i = 30 -> "GO_TO_JAIL"
      [] OTHER -> "PROPERTY"

SpaceGroup(i) ==
    CASE i \in {1, 3} -> "BROWN"
      [] i \in {6, 8, 9} -> "LIGHT_BLUE"
      [] i \in {11, 13, 14} -> "PINK"
      [] i \in {16, 18, 19} -> "ORANGE"
      [] i \in {21, 23, 24} -> "RED"
      [] i \in {26, 27, 29} -> "YELLOW"
      [] i \in {31, 32, 34} -> "GREEN"
      [] i \in {37, 39} -> "DARK_BLUE"
      [] i \in {5, 15, 25, 35} -> "RAILROAD"
      [] i \in {12, 28} -> "UTILITY"
      [] OTHER -> ""

SpacePrice(i) ==
    CASE i \in {1, 3} -> 60
      [] i \in {6, 8} -> 100
      [] i = 9 -> 120
      [] i \in {11, 13} -> 140
      [] i = 14 -> 160
      [] i \in {16, 18} -> 180
      [] i = 19 -> 200
      [] i \in {21, 23} -> 220
      [] i = 24 -> 240
      [] i \in {26, 27} -> 260
      [] i = 29 -> 280
      [] i \in {31, 32} -> 300
      [] i = 34 -> 320
      [] i = 37 -> 350
      [] i = 39 -> 400
      [] i \in {5, 15, 25, 35} -> 200
      [] i \in {12, 28} -> 150
      [] OTHER -> 0

OWNABLE_KINDS == {"PROPERTY", "RAILROAD", "UTILITY"}

GROUP_INDEXES(g) == {i \in Spaces : SpaceGroup(i) = g}

PropertyGroups ==
    {"BROWN", "LIGHT_BLUE", "PINK", "ORANGE", "RED", "YELLOW", "GREEN", "DARK_BLUE"}

HOUSE_COST_BY_GROUP(g) ==
    CASE g \in {"BROWN", "LIGHT_BLUE"} -> 50
      [] g \in {"PINK", "ORANGE"} -> 100
      [] g \in {"RED", "YELLOW"} -> 150
      [] g \in {"GREEN", "DARK_BLUE"} -> 200
      [] OTHER -> 0

PROPERTY_RENT_TABLES(i) ==
    CASE i = 1 -> <<2, 10, 30, 90, 160, 250>>
      [] i = 3 -> <<4, 20, 60, 180, 320, 450>>
      [] i \in {6, 8} -> <<6, 30, 90, 270, 400, 550>>
      [] i = 9 -> <<8, 40, 100, 300, 450, 600>>
      [] i \in {11, 13} -> <<10, 50, 150, 450, 625, 750>>
      [] i = 14 -> <<12, 60, 180, 500, 700, 900>>
      [] i \in {16, 18} -> <<14, 70, 200, 550, 750, 950>>
      [] i = 19 -> <<16, 80, 220, 600, 800, 1000>>
      [] i \in {21, 23} -> <<18, 90, 250, 700, 875, 1050>>
      [] i = 24 -> <<20, 100, 300, 750, 925, 1100>>
      [] i \in {26, 27} -> <<22, 110, 330, 800, 975, 1150>>
      [] i = 29 -> <<24, 120, 360, 850, 1025, 1200>>
      [] i \in {31, 32} -> <<26, 130, 390, 900, 1100, 1275>>
      [] i = 34 -> <<28, 150, 450, 1000, 1200, 1400>>
      [] i = 37 -> <<35, 175, 500, 1100, 1300, 1500>>
      [] i = 39 -> <<50, 200, 600, 1400, 1700, 2000>>
      [] OTHER -> <<>>

RAILROAD_RENTS == <<25, 50, 100, 200>>

UTILITY_RENT_MULTIPLIER(owned) == IF owned = 2 THEN 10 ELSE 4

TAX_AMOUNTS(i) == CASE i = 4 -> 200 [] i = 38 -> 100 [] OTHER -> 0

\* ------------------------------------------------------------ small helpers
Min(a, b) == IF a < b THEN a ELSE b
Max(a, b) == IF a > b THEN a ELSE b

RECURSIVE SetToSortedSeq(_)
SetToSortedSeq(S) ==
    IF S = {} THEN <<>>
    ELSE LET m == CHOOSE x \in S : \A y \in S : x <= y
         IN <<m>> \o SetToSortedSeq(S \ {m})

SeqToSet(s) == {s[k] : k \in 1..Len(s)}

RECURSIVE SumOver(_, _)
SumOver(S, f) ==
    IF S = {} THEN 0
    ELSE LET x == CHOOSE y \in S : TRUE
         IN f[x] + SumOver(S \ {x}, f)

\* board.normalize_space_key / SPACE_KEY_BY_INDEX: the key of a space
SPACE_KEY_BY_INDEX(i) == KEY_BASE + i

\* Engine._space_index_from_key: -1 stands for None (no key, unknown key)
space_index_from_key(space_key) ==
    IF space_key - KEY_BASE \in Spaces THEN space_key - KEY_BASE ELSE -1


\* ------------------------------------------------------------- RNG and decks
\* rng.DeterministicRng: random.Random(seed) is a fixed function of the seed.
\* Each seed names one dice stream and one shuffle of each deck; the engine
\* field rng counts the rolls made so far.
Seeds == {"s1", "s2", "s3"}

DiceStream(seed) ==
    CASE seed = "s1" -> << <<1, 3>>, <<2, 1>>, <<3, 4>>, <<6, 5>>, <<1, 2>> >>
      [] seed = "s2" -> << <<2, 2>>, <<1, 2>>, <<3, 3>>, <<5, 2>>, <<4, 4>>, <<1, 4>> >>
      [] OTHER -> << <<3, 4>>, <<6, 6>>, <<2, 5>>, <<1, 1>>, <<4, 6>> >>

CHANCE_CARDS ==
    << "ADVANCE_TO_GO", "GO_TO_ILLINOIS_AVE", "GO_TO_ST_CHARLES_PLACE",
       "GO_TO_NEAREST_UTILITY", "GO_TO_NEAREST_RAILROAD_A",
       "GO_TO_NEAREST_RAILROAD_B", "BANK_PAYS_YOU_DIVIDEND_50",
       "GET_OUT_OF_JAIL_FREE", "GO_BACK_3_SPACES", "GO_TO_JAIL",
       "GENERAL_REPAIRS", "PAY_POOR_TAX_15", "TAKE_TRIP_TO_READING_RR",
       "ADVANCE_TO_BOARDWALK", "ELECTED_CHAIRMAN_PAY_EACH_PLAYER_50",
       "BUILDING_LOAN_MATURES_RECEIVE_150" >>

COMMUNITY_CHEST_CARDS ==
    << "ADVANCE_TO_GO", "BANK_ERROR_COLLECT_200", "DOCTOR_FEE_PAY_50",
       "SALE_OF_STOCK_COLLECT_50", "GET_OUT_OF_JAIL_FREE", "GO_TO_JAIL",
       "HOLIDAY_FUND_RECEIVE_100", "INCOME_TAX_REFUND_COLLECT_20",
       "BIRTHDAY_COLLECT_10_FROM_EACH_PLAYER", "LIFE_INSURANCE_COLLECT_100",
       "HOSPITAL_FEES_PAY_100", "SCHOOL_FEES_PAY_50",
       "CONSULTANCY_FEE_COLLECT_25", "STREET_REPAIRS",
       "BEAUTY_CONTEST_COLLECT_10", "INHERIT_100" >>

\* a rotation of the list by k places: the permutation a seed produces
Rotate(items, k) ==
    [n \in 1..Len(items) |-> items[((n - 1 + k) % Len(items)) + 1]]

ShuffleOffset(seed) == CASE seed = "s1" -> 7 [] seed = "s2" -> 14 [] OTHER -> 9

\* DeterministicRng.shuffle
shuffle(seed, items) == Rotate(items, ShuffleOffset(seed))

\* DeterministicRng.roll_dice: the pair the stream holds at position rng
roll_dice(e) ==
    LET stream == DiceStream(e.seed)
    IN stream[(e.rng % Len(stream)) + 1]

\* ------------------------------------------------------------ engine records
NoDecision ==
    [decision_id |-> -1, turn_index |-> -1, player_id |-> NoPlayer,
     decision_type |-> "NONE", legal_actions |-> <<>>,
     options |-> [mortgageable_space_indices |-> <<>>,
                  unmortgageable_space_indices |-> <<>>,
                  buildable_space_indices |-> <<>>,
                  sellable_building_space_indices |-> <<>>],
     owed_amount |-> 0, owed_to_player_id |-> NoPlayer,
     state |-> <<>>]

NoTurn ==
    [present |-> FALSE, player_id |-> NoPlayer, decision_type |-> "",
     rolled_double |-> FALSE, space_index |-> -1]

NoPaymentEntry ==
    [amount |-> 0, to_player_id |-> NoPlayer, reason |-> "", kind |-> "",
     space_index |-> -1]

NoPayment ==
    [present |-> FALSE, player_id |-> NoPlayer, payment |-> NoPaymentEntry,
     remaining_payments |-> <<>>, rolled_double |-> FALSE]

\* models.PlayerState
PlayerState ==
    [cash |-> DEFAULT_STARTING_CASH, position |-> 0, in_jail |-> FALSE,
     jail_turns |-> 0, doubles_count |-> 0, bankrupt |-> FALSE,
     bankrupt_to |-> NoPlayer, get_out_of_jail_cards |-> 0]

\* models.SpaceState (the mutable part)
SpaceState == [owner_id |-> NoPlayer, mortgaged |-> FALSE, houses |-> 0, hotel |-> FALSE]

\* models.BankState
BankState == [houses_remaining |-> DEFAULT_HOUSES, hotels_remaining |-> DEFAULT_HOTELS]

\* GameState.auction when no auction runs (None); nothing in the engine
\* assigns the field
NoAuction == [space_index |-> -1]

\* engine.create_initial_state
create_initial_state ==
    [turn_index |-> 0, phase |-> "START_TURN", active_player_id |-> 1,
     players |-> [p \in Players |-> PlayerState],
     bank |-> BankState,
     board |-> [i \in Spaces |-> SpaceState],
     auction |-> NoAuction]

\* Engine.__init__
EngineInit(seed) ==
    [seed |-> seed, rng |-> 0, max_turns |-> MaxTurns,
     seq |-> 0, started |-> FALSE, stop_reason |-> "",
     decision_seq |-> 0,
     pending_decision |-> NoDecision, pending_turn |-> NoTurn,
     pending_payment |-> NoPayment,
     state |-> create_initial_state,
     chance_deck |-> shuffle(seed, CHANCE_CARDS),
     community_chest_deck |-> shuffle(seed, COMMUNITY_CHEST_CARDS),
     jail_card_sources |-> [p \in Players |-> <<>>],
     events |-> <<>>, err |-> "", rd |-> NoDecision, rsi |-> -1]

Jail_index == CHOOSE i \in Spaces : SpaceKind(i) = "JAIL"

\* Engine.get_snapshot / GameState.to_snapshot
get_snapshot(e) == e.state

\* Engine.is_game_over
is_game_over(e) == e.state.phase = "GAME_OVER"

\* the (decision, decision_space_index) pair a helper returns
Ret(e, d, si) == [e EXCEPT !.rd = d, !.rsi = si]

\* raise ValueError(msg): the first error raised is the one that propagates
Raise(e, msg) == IF e.err # "" THEN e ELSE [e EXCEPT !.err = msg]

\* event payload
\* an event payload: two integer fields, a second player, a kind and a reason
PLK(pid, a, b, to, kind, r) ==
    [player_id |-> pid, a |-> a, b |-> b, to_player_id |-> to, kind |-> kind, reason |-> r]
PL(pid, a, b, r) == PLK(pid, a, b, NoPlayer, "", r)

ACTOR_ENGINE == 0

\* Engine._build_event
build_event(e, event_type, actor, payload, turn_index) ==
    [e EXCEPT !.seq = @ + 1,
              !.events = Append(@, [seq |-> e.seq,
                                    ts_ms |-> START_TS_MS + (e.seq * TS_STEP_MS),
                                    turn_index |-> turn_index,
                                    actor |-> actor,
                                    type |-> event_type,
                                    payload |-> payload])]

\* a change of cash that no event reports
apply_cash_delta_silent(e, pid, delta, reason, turn_index) ==
    [e EXCEPT !.state.players[pid].cash = @ + delta]

\* Engine._apply_cash_delta
apply_cash_delta(e, pid, delta, reason, turn_index) ==
    build_event([e EXCEPT !.state.players[pid].cash = @ + delta],
                "CASH_CHANGED", pid, PL(pid, delta, 0, reason), turn_index)

\* Engine._active_player_count
active_player_count(e) == Cardinality({p \in Players : ~e.state.players[p].bankrupt})

\* Engine._next_active_player_id
next_active_player_id(e, current_id) ==
    LET n == EXPECTED_PLAYER_COUNT
        cand(offset) == ((current_id - 1 + offset) % n) + 1
        ok == {offset \in 1..n : ~e.state.players[cand(offset)].bankrupt}
    IN IF ok = {} THEN current_id
       ELSE cand(CHOOSE o \in ok : \A o2 \in ok : o <= o2)

\* Engine._current_player
current_player(e) ==
    IF e.state.active_player_id \in Players THEN e.state.active_player_id ELSE 1

\* Engine._determine_winner: max() keeps the first player of the highest cash
determine_winner(e) ==
    LET active == {p \in Players : ~e.state.players[p].bankrupt}
        pool == IF active # {} THEN active ELSE Players
        best == {p \in pool : \A q \in pool : e.state.players[q].cash <= e.state.players[p].cash}
    IN CHOOSE p \in best : \A q \in best : p <= q

\* a turn end that never grants the extra turn
end_turn_in_order(e, pid, allow_extra_turn) ==
    LET e1 == build_event([e EXCEPT !.state.phase = "END_TURN"], "TURN_ENDED",
                          ACTOR_ENGINE, PL(NoPlayer, 0, 0, ""), e.state.turn_index)
        e2 == [e1 EXCEPT !.state.turn_index = @ + 1]
    IN [e2 EXCEPT !.state.active_player_id = next_active_player_id(e2, pid),
                  !.state.phase = "START_TURN"]

\* Engine._end_turn
end_turn(e, pid, allow_extra_turn) ==
    LET e1 == build_event([e EXCEPT !.state.phase = "END_TURN"], "TURN_ENDED",
                          ACTOR_ENGINE, PL(NoPlayer, 0, 0, ""), e.state.turn_index)
        e2 == [e1 EXCEPT !.state.turn_index = @ + 1]
        next_player_id == IF allow_extra_turn THEN pid ELSE next_active_player_id(e2, pid)
    IN [e2 EXCEPT !.state.active_player_id = next_player_id,
                  !.state.phase = "START_TURN"]

\* Engine._should_end_game: the stop reason it records
stop_reason_after(e) ==
    IF e.stop_reason # "" THEN e.stop_reason
    ELSE IF e.state.turn_index >= e.max_turns THEN "TURN_LIMIT"
    ELSE IF active_player_count(e) <= 1 THEN "BANKRUPTCY"
    ELSE ""

\* Engine._should_end_game: its result
should_end_game(e) == stop_reason_after(e) # ""

\* a finish that emits GAME_ENDED and leaves the phase as it is
finish_game_open(e) ==
    LET winner_id == determine_winner(e)
    IN build_event(e, "GAME_ENDED", ACTOR_ENGINE,
                   PL(winner_id, 0, 0, IF e.stop_reason # "" THEN e.stop_reason ELSE "TURN_LIMIT"),
                   Max(e.state.turn_index, 0))

\* Engine._finish_game
finish_game(e) ==
    IF e.state.phase = "GAME_OVER" THEN e
    ELSE LET winner_id == determine_winner(e)
             e1 == [e EXCEPT !.state.phase = "GAME_OVER",
                             !.state.active_player_id = winner_id]
         IN build_event(e1, "GAME_ENDED", ACTOR_ENGINE,
                        PL(winner_id, 0, 0, IF e.stop_reason # "" THEN e.stop_reason ELSE "TURN_LIMIT"),
                        Max(e.state.turn_index, 0))

\* the recurring tail "if self._should_end_game(): self._finish_game(events)"
finish_if_ended(e) ==
    LET e1 == [e EXCEPT !.stop_reason = stop_reason_after(e)]
    IN IF should_end_game(e) THEN finish_game(e1) ELSE e1


\* ------------------------------------------------- assets and their options
\* Engine._house_value
house_value(space) == IF space.hotel THEN HOTEL_HOUSE_EQUIV ELSE space.houses

\* Engine._group_has_buildings
group_has_buildings(e, group) ==
    \E i \in GROUP_INDEXES(group) : e.state.board[i].houses > 0 \/ e.state.board[i].hotel

\* Engine._group_has_mortgaged
group_has_mortgaged(e, group) ==
    \E i \in GROUP_INDEXES(group) : e.state.board[i].mortgaged

\* Engine._mortgage_value
mortgage_value(i) == SpacePrice(i) \div 2

\* Engine._unmortgage_cost: int(math.ceil(value * 1.1))
unmortgage_cost(i) == ((mortgage_value(i) * 11) + 9) \div 10

\* Engine._mortgageable_space_indices (board order)
mortgageable_space_indices(e, pid) ==
    SetToSortedSeq({i \in Spaces :
        /\ e.state.board[i].owner_id = pid
        /\ ~e.state.board[i].mortgaged
        /\ ~(e.state.board[i].houses > 0 \/ e.state.board[i].hotel)
        /\ ~(SpaceGroup(i) # "" /\ group_has_buildings(e, SpaceGroup(i)))})

\* Engine._unmortgageable_space_indices
unmortgageable_space_indices(e, pid) ==
    SetToSortedSeq({i \in Spaces :
        /\ e.state.board[i].owner_id = pid
        /\ e.state.board[i].mortgaged
        /\ e.state.players[pid].cash >= unmortgage_cost(i)})

GroupValues(e, group) == {house_value(e.state.board[j]) : j \in GROUP_INDEXES(group)}
MinOf(S) == CHOOSE x \in S : \A y \in S : x <= y
MaxOf(S) == CHOOSE x \in S : \A y \in S : x >= y

\* Engine._buildable_space_indices (groups lie in board order)
buildable_space_indices(e, pid) ==
    SetToSortedSeq({i \in Spaces :
        LET group == SpaceGroup(i)
            space == e.state.board[i]
        IN /\ group \in PropertyGroups
           /\ \A j \in GROUP_INDEXES(group) : e.state.board[j].owner_id = pid
           /\ ~group_has_mortgaged(e, group)
           /\ e.state.players[pid].cash >= HOUSE_COST_BY_GROUP(group)
           /\ MinOf(GroupValues(e, group)) < HOTEL_HOUSE_EQUIV
           /\ house_value(space) = MinOf(GroupValues(e, group))
           /\ ~space.hotel
           /\ IF space.houses < HOUSE_LIMIT
              THEN e.state.bank.houses_remaining > 0
              ELSE space.houses = HOUSE_LIMIT /\ e.state.bank.hotels_remaining > 0})

\* Engine._sellable_building_space_indices
sellable_building_space_indices(e, pid) ==
    SetToSortedSeq({i \in Spaces :
        LET group == SpaceGroup(i)
            space == e.state.board[i]
        IN /\ group \in PropertyGroups
           /\ \A j \in GROUP_INDEXES(group) : e.state.board[j].owner_id = pid
           /\ MaxOf(GroupValues(e, group)) > 0
           /\ house_value(space) = MaxOf(GroupValues(e, group))
           /\ IF space.hotel
              THEN e.state.bank.houses_remaining >= HOUSE_LIMIT
              ELSE space.houses > 0})

\* Engine._compute_post_turn_options
compute_post_turn_options(e, pid) ==
    [mortgageable_space_indices |-> mortgageable_space_indices(e, pid),
     unmortgageable_space_indices |-> unmortgageable_space_indices(e, pid),
     buildable_space_indices |-> buildable_space_indices(e, pid),
     sellable_building_space_indices |-> sellable_building_space_indices(e, pid)]

\* Engine._compute_liquidation_options
compute_liquidation_options(e, pid) ==
    [mortgageable_space_indices |-> mortgageable_space_indices(e, pid),
     unmortgageable_space_indices |-> <<>>,
     buildable_space_indices |-> <<>>,
     sellable_building_space_indices |-> sellable_building_space_indices(e, pid)]

\* Engine._count_owned
count_owned(e, pid, kind) ==
    Cardinality({i \in Spaces : SpaceKind(i) = kind /\ e.state.board[i].owner_id = pid})

\* Engine._has_monopoly
has_monopoly(e, pid, group) ==
    /\ group \notin {"RAILROAD", "UTILITY"}
    /\ GROUP_INDEXES(group) # {}
    /\ \A i \in GROUP_INDEXES(group) :
          e.state.board[i].owner_id = pid /\ ~e.state.board[i].mortgaged

\* Engine._calculate_rent
calculate_rent(e, i, owner, dice_total) ==
    LET space == e.state.board[i]
        rent_table == PROPERTY_RENT_TABLES(i)
    IN CASE SpaceKind(i) = "UTILITY" ->
              dice_total * UTILITY_RENT_MULTIPLIER(count_owned(e, owner, "UTILITY"))
         [] SpaceKind(i) = "RAILROAD" ->
              IF count_owned(e, owner, "RAILROAD") <= 0 THEN 0
              ELSE RAILROAD_RENTS[Min(count_owned(e, owner, "RAILROAD"), 4)]
         [] OTHER ->
              IF rent_table = <<>> THEN 0
              ELSE IF space.hotel THEN rent_table[6]
              ELSE IF space.houses > 0 THEN rent_table[space.houses + 1]
              ELSE IF SpaceGroup(i) # "" /\ has_monopoly(e, owner, SpaceGroup(i))
                   THEN rent_table[1] * 2
                   ELSE rent_table[1]

\* Engine._repairs_cost
repairs_cost(e, pid, house_cost, hotel_cost) ==
    LET mine == {i \in Spaces : e.state.board[i].owner_id = pid}
        houses == SumOver(mine, [i \in Spaces |-> e.state.board[i].houses])
        hotels == Cardinality({i \in mine : e.state.board[i].hotel})
    IN (houses * house_cost) + (hotels * hotel_cost)

\* Engine._find_next_index
find_next_index(start_index, kind) ==
    LET hits == {offset \in 1..BOARD_SIZE : SpaceKind((start_index + offset) % BOARD_SIZE) = kind}
    IN IF hits = {} THEN start_index
       ELSE (start_index + MinOf(hits)) % BOARD_SIZE

\* ------------------------------------------------------------- bankruptcy
\* the loop of Engine._handle_bankruptcy over the board, from space i on
RECURSIVE bankruptcy_release(_, _, _, _, _)
bankruptcy_release(e, pid, creditor, turn_index, i) ==
    IF i >= BOARD_SIZE THEN e
    ELSE IF e.state.board[i].owner_id # pid
         THEN bankruptcy_release(e, pid, creditor, turn_index, i + 1)
    ELSE IF creditor # NoPlayer
         THEN bankruptcy_release(
                 build_event([e EXCEPT !.state.board[i].owner_id = creditor],
                             "PROPERTY_PURCHASED", creditor, PL(creditor, i, 0, ""), turn_index),
                 pid, creditor, turn_index, i + 1)
    ELSE LET space == e.state.board[i]
             e1 == [e EXCEPT
                      !.state.bank.hotels_remaining = IF space.hotel THEN @ + 1 ELSE @,
                      !.state.bank.houses_remaining = IF space.houses > 0 THEN @ + space.houses ELSE @,
                      !.state.board[i] = SpaceState]
         IN bankruptcy_release(e1, pid, creditor, turn_index, i + 1)

\* a bankruptcy that marks the player and leaves the cash and the properties
handle_bankruptcy_marked(e, pid, creditor, turn_index) ==
    IF e.state.players[pid].bankrupt THEN e
    ELSE build_event([e EXCEPT !.state.players[pid].bankrupt = TRUE,
                               !.state.players[pid].bankrupt_to = creditor,
                               !.state.players[pid].doubles_count = 0],
                     "CASH_CHANGED", pid, PL(pid, 0, 0, "BANKRUPTCY"), turn_index)

\* Engine._handle_bankruptcy (creditor NoPlayer: the bank)
handle_bankruptcy(e, pid, creditor, turn_index) ==
    IF e.state.players[pid].bankrupt THEN e
    ELSE LET remaining_cash == e.state.players[pid].cash
             e1 == [e EXCEPT !.state.players[pid].bankrupt = TRUE,
                             !.state.players[pid].bankrupt_to = creditor,
                             !.state.players[pid].doubles_count = 0]
             e2 == IF remaining_cash > 0
                   THEN LET c1 == apply_cash_delta(e1, pid, -remaining_cash, "BANKRUPTCY_CASH", turn_index)
                        IN IF creditor # NoPlayer
                           THEN apply_cash_delta(c1, creditor, remaining_cash, "BANKRUPTCY_CASH", turn_index)
                           ELSE c1
                   ELSE e1
             e3 == build_event(e2, "CASH_CHANGED", pid, PL(pid, 0, 0, "BANKRUPTCY"), turn_index)
             e4 == bankruptcy_release(e3, pid, creditor, turn_index, 0)
         IN IF creditor = NoPlayer
            THEN build_event(e4, "CASH_CHANGED", pid, PL(pid, 0, 0, "BANKRUPTCY_ASSETS_TO_BANK"), turn_index)
            ELSE e4

\* ---------------------------------------------------------------- decisions
Decision(e, pid, decision_type, legal_actions, options, owed_amount, owed_to) ==
    [decision_id |-> e.decision_seq, turn_index |-> e.state.turn_index,
     player_id |-> pid, decision_type |-> decision_type,
     legal_actions |-> legal_actions, options |-> options,
     owed_amount |-> owed_amount, owed_to_player_id |-> owed_to,
     state |-> get_snapshot(e)]

\* a decision builder: returns the decision and consumes one decision id
Built(e, d) == [e EXCEPT !.decision_seq = @ + 1, !.rd = d]

CondSeq(b, x) == IF b THEN <<x>> ELSE <<>>

\* Engine._build_buy_or_auction_decision
buy_or_auction_legal_actions(e, pid, i) ==
    CondSeq(SpacePrice(i) > 0 /\ e.state.players[pid].cash >= SpacePrice(i), "buy_property")
    \o <<"start_auction">>

build_buy_or_auction_decision(e, pid, i) ==
    Built(e, Decision(e, pid, "BUY_OR_AUCTION_DECISION",
                      buy_or_auction_legal_actions(e, pid, i), NoDecision.options, 0, NoPlayer))

\* Engine._build_jail_decision: the legal actions
jail_legal_actions(player) ==
    IF player.jail_turns >= 3
    THEN CondSeq(player.cash >= JAIL_FINE, "pay_jail_fine")
    ELSE CondSeq(player.cash >= JAIL_FINE, "pay_jail_fine")
         \o <<"roll_for_doubles">>
         \o CondSeq(player.get_out_of_jail_cards > 0, "use_get_out_of_jail_card")

\* a jail decision that offers the fine whatever the player's cash
build_jail_decision_any_cash(e, pid) ==
    Built(e, Decision(e, pid, "JAIL_DECISION", <<"pay_jail_fine", "roll_for_doubles">>,
                      NoDecision.options, 0, NoPlayer))

\* Engine._build_jail_decision
build_jail_decision(e, pid) ==
    Built(e, Decision(e, pid, "JAIL_DECISION", jail_legal_actions(e.state.players[pid]),
                      NoDecision.options, 0, NoPlayer))

\* Engine._build_post_turn_action_decision: the legal actions
post_turn_legal_actions(options) ==
    <<"end_turn">>
    \o CondSeq(options.mortgageable_space_indices # <<>>, "mortgage_property")
    \o CondSeq(options.unmortgageable_space_indices # <<>>, "unmortgage_property")
    \o CondSeq(options.buildable_space_indices # <<>>, "build_houses_or_hotel")
    \o CondSeq(options.sellable_building_space_indices # <<>>, "sell_houses_or_hotel")

\* a post-turn decision that does not offer end_turn
build_post_turn_action_decision_endless(e, pid) ==
    LET options == compute_post_turn_options(e, pid)
    IN Built(e, Decision(e, pid, "POST_TURN_ACTION_DECISION",
                         Tail(post_turn_legal_actions(options)), options, 0, NoPlayer))

\* Engine._build_post_turn_action_decision
build_post_turn_action_decision(e, pid) ==
    LET options == compute_post_turn_options(e, pid)
    IN Built(e, Decision(e, pid, "POST_TURN_ACTION_DECISION",
                         post_turn_legal_actions(options), options, 0, NoPlayer))

\* Engine._build_liquidation_decision: the legal actions
liquidation_legal_actions(options) ==
    CondSeq(options.mortgageable_space_indices # <<>>, "mortgage_property")
    \o CondSeq(options.sellable_building_space_indices # <<>>, "sell_houses_or_hotel")
    \o <<"declare_bankruptcy">>

\* Engine._build_liquidation_decision
build_liquidation_decision(e, pid, payment, options) ==
    Built(e, Decision(e, pid, "LIQUIDATION_DECISION",
                      liquidation_legal_actions(options), options,
                      payment.amount, payment.to_player_id))

\* the LLM_DECISION_REQUESTED event and the pending fields every caller sets
request_decision(e, pid, pending_turn, turn_index) ==
    LET d == e.rd
        e1 == [e EXCEPT !.state.phase = "AWAITING_DECISION",
                        !.pending_decision = d,
                        !.pending_turn = pending_turn]
    IN build_event(e1, "LLM_DECISION_REQUESTED", ACTOR_ENGINE,
                   PL(pid, d.decision_id, 0, d.decision_type), turn_index)

\* Engine._maybe_start_post_turn_decision
maybe_start_post_turn_decision(e, pid, rolled_double) ==
    IF e.state.players[pid].bankrupt \/ e.state.players[pid].in_jail
    THEN Ret(end_turn(e, pid, FALSE), NoDecision, -1)
    ELSE LET e1 == build_post_turn_action_decision(e, pid)
         IN request_decision(e1, pid,
                [present |-> TRUE, player_id |-> pid,
                 decision_type |-> "POST_TURN_ACTION_DECISION",
                 rolled_double |-> rolled_double, space_index |-> -1],
                e.state.turn_index)


\* ---------------------------------------------------------------- payments
\* Engine._build_payment_entry (space_index -1 stands for None)
build_payment_entry(amount, to_player_id, reason, kind, space_index) ==
    [amount |-> amount, to_player_id |-> to_player_id, reason |-> reason,
     kind |-> kind, space_index |-> space_index]

\* Engine._apply_payment
apply_payment(e, pid, payment, turn_index) ==
    IF payment.amount <= 0 THEN e
    ELSE LET e1 == apply_cash_delta(e, pid, -payment.amount, payment.reason, turn_index)
             e2 == IF payment.to_player_id # NoPlayer
                   THEN apply_cash_delta(e1, payment.to_player_id, payment.amount,
                                         payment.reason, turn_index)
                   ELSE e1
         IN IF payment.kind = "RENT" /\ payment.space_index # -1 /\ payment.to_player_id # NoPlayer
            THEN build_event(e2, "RENT_PAID", pid,
                             PLK(pid, payment.amount, payment.space_index,
                                 payment.to_player_id, "", ""),
                             turn_index)
            ELSE e2

\* the pending payment both payment helpers record before a liquidation
hold_payment(e, pid, payment, remaining, rolled_double) ==
    LET e1 == [e EXCEPT !.pending_payment =
                  [present |-> TRUE, player_id |-> pid, payment |-> payment,
                   remaining_payments |-> remaining, rolled_double |-> rolled_double]]
    IN build_liquidation_decision(e1, pid, payment, compute_liquidation_options(e1, pid))

\* Engine._process_payment_queue
RECURSIVE process_payment_queue(_, _, _, _, _)
process_payment_queue(e, pid, queue, turn_index, rolled_double) ==
    IF queue = <<>> THEN Ret(e, NoDecision, -1)
    ELSE LET payment == Head(queue)
         IN IF payment.amount <= 0
            THEN process_payment_queue(e, pid, Tail(queue), turn_index, rolled_double)
            ELSE IF e.state.players[pid].cash >= payment.amount
            THEN process_payment_queue(apply_payment(e, pid, payment, turn_index),
                                       pid, Tail(queue), turn_index, rolled_double)
            ELSE hold_payment(e, pid, payment, Tail(queue), rolled_double)

\* Engine._request_payment
request_payment(e, pid, payment, turn_index, rolled_double, remaining_payments) ==
    IF payment.amount <= 0 THEN Ret(e, NoDecision, -1)
    ELSE IF e.state.players[pid].cash >= payment.amount
    THEN LET e1 == apply_payment(e, pid, payment, turn_index)
         IN IF remaining_payments # <<>>
            THEN process_payment_queue(e1, pid, remaining_payments, turn_index, rolled_double)
            ELSE Ret(e1, NoDecision, -1)
    ELSE hold_payment(e, pid, payment, remaining_payments, rolled_double)

\* Engine._pay_rent
pay_rent(e, pid, owner, amount, space_index, turn_index, rolled_double) ==
    request_payment(e, pid, build_payment_entry(amount, owner, "RENT", "RENT", space_index),
                    turn_index, rolled_double, <<>>)

\* Engine._pay_tax
pay_tax(e, pid, amount, reason, turn_index, rolled_double) ==
    request_payment(e, pid, build_payment_entry(amount, NoPlayer, reason, "TAX", -1),
                    turn_index, rolled_double, <<>>)

\* "if decision is None: return None, None; return decision, space_index"
WithSpace(e, space_index) ==
    IF e.rd = NoDecision THEN Ret(e, NoDecision, -1) ELSE Ret(e, e.rd, space_index)

\* ----------------------------------------------------------------- movement
\* Engine._send_player_to_jail
send_player_to_jail(e, pid, reason, turn_index) ==
    LET from_pos == e.state.players[pid].position
        e1 == [e EXCEPT !.state.players[pid].position = Jail_index,
                        !.state.players[pid].in_jail = TRUE,
                        !.state.players[pid].jail_turns = 0,
                        !.state.players[pid].doubles_count = 0]
        e2 == IF from_pos # Jail_index
              THEN build_event(e1, "PLAYER_MOVED", pid, PL(pid, from_pos, Jail_index, ""), turn_index)
              ELSE e1
    IN build_event(e2, "SENT_TO_JAIL", pid, PL(pid, 0, 0, reason), turn_index)

\* the PLAYER_MOVED event and the salary both movers produce
moved(e, pid, from_pos, to_pos, passed_go, turn_index) ==
    LET e1 == build_event([e EXCEPT !.state.players[pid].position = to_pos],
                          "PLAYER_MOVED", pid,
                          PL(pid, from_pos, to_pos, IF passed_go THEN "passed_go" ELSE ""),
                          turn_index)
    IN IF passed_go
       THEN apply_cash_delta(e1, pid, PASS_GO_AMOUNT, "PASS_GO", turn_index)
       ELSE e1

\* Engine._move_player_no_resolve
move_player_no_resolve(e, pid, target_index, turn_index, collect_go) ==
    LET from_pos == e.state.players[pid].position
        target == target_index % BOARD_SIZE
    IN moved(e, pid, from_pos, target, collect_go /\ target < from_pos, turn_index)

\* the payment of a card that charges the bank: decision space is the position
card_payment(e, pid, amount, card_id, turn_index, rolled_double) ==
    LET e1 == request_payment(e, pid, build_payment_entry(amount, NoPlayer, card_id, "CARD", -1),
                              turn_index, rolled_double, <<>>)
    IN WithSpace(e1, e1.state.players[pid].position)

\* the BIRTHDAY_COLLECT_10_FROM_EACH_PLAYER loop, from player other on
RECURSIVE birthday(_, _, _, _, _)
birthday(e, pid, card_id, turn_index, other) ==
    IF other > EXPECTED_PLAYER_COUNT THEN e
    ELSE IF other = pid \/ e.state.players[other].bankrupt
         THEN birthday(e, pid, card_id, turn_index, other + 1)
    ELSE IF e.state.players[other].cash >= 10
         THEN birthday(apply_cash_delta(apply_cash_delta(e, other, -10, card_id, turn_index),
                                        pid, 10, card_id, turn_index),
                       pid, card_id, turn_index, other + 1)
    ELSE birthday(handle_bankruptcy(e, other, pid, turn_index), pid, card_id, turn_index, other + 1)

CardCash(card_id) ==
    CASE card_id = "BANK_PAYS_YOU_DIVIDEND_50" -> 50
      [] card_id = "BUILDING_LOAN_MATURES_RECEIVE_150" -> 150
      [] card_id = "BANK_ERROR_COLLECT_200" -> 200
      [] card_id = "SALE_OF_STOCK_COLLECT_50" -> 50
      [] card_id = "HOLIDAY_FUND_RECEIVE_100" -> 100
      [] card_id = "INCOME_TAX_REFUND_COLLECT_20" -> 20
      [] card_id = "LIFE_INSURANCE_COLLECT_100" -> 100
      [] card_id = "CONSULTANCY_FEE_COLLECT_25" -> 25
      [] card_id = "BEAUTY_CONTEST_COLLECT_10" -> 10
      [] card_id = "INHERIT_100" -> 100
      [] OTHER -> 0

CardFee(card_id) ==
    CASE card_id = "PAY_POOR_TAX_15" -> 15
      [] card_id = "DOCTOR_FEE_PAY_50" -> 50
      [] card_id = "HOSPITAL_FEES_PAY_100" -> 100
      [] card_id = "SCHOOL_FEES_PAY_50" -> 50
      [] OTHER -> 0

CardTarget(card_id) ==
    CASE card_id = "ADVANCE_TO_GO" -> 0
      [] card_id = "GO_TO_ILLINOIS_AVE" -> 24
      [] card_id = "GO_TO_ST_CHARLES_PLACE" -> 11
      [] card_id = "TAKE_TRIP_TO_READING_RR" -> 5
      [] card_id = "ADVANCE_TO_BOARDWALK" -> 39
      [] OTHER -> -1


\* ------------------------------------------------------- landing and cards
RECURSIVE resolve_landing(_, _, _, _, _, _)
RECURSIVE draw_card(_, _, _, _, _)
RECURSIVE apply_card_effect(_, _, _, _, _, _)
RECURSIVE move_player_to(_, _, _, _, _, _)

\* Engine._move_player_to
move_player_to(e, pid, target_index, turn_index, collect_go, rolled_double) ==
    resolve_landing(move_player_no_resolve(e, pid, target_index, turn_index, collect_go),
                    pid, target_index % BOARD_SIZE, 0, turn_index, rolled_double)

\* the GO_TO_NEAREST_UTILITY / GO_TO_NEAREST_RAILROAD_* branches
nearest_card(e, card_id, pid, turn_index, rolled_double) ==
    LET kind == IF card_id = "GO_TO_NEAREST_UTILITY" THEN "UTILITY" ELSE "RAILROAD"
        target == find_next_index(e.state.players[pid].position, kind)
        e1 == move_player_no_resolve(e, pid, target, turn_index, TRUE)
        space == e1.state.board[target]
        owner == space.owner_id
    IN IF owner = NoPlayer \/ owner = pid \/ space.mortgaged
       THEN resolve_landing(e1, pid, target, 0, turn_index, rolled_double)
       ELSE IF e1.state.players[owner].bankrupt THEN Ret(e1, NoDecision, -1)
       ELSE IF kind = "UTILITY"
       THEN LET d == roll_dice(e1)
                e2 == build_event([e1 EXCEPT !.rng = @ + 1], "DICE_ROLLED", pid,
                                  PL(pid, d[1], d[2], "CARD_UTILITY_RENT"), turn_index)
                payment == build_payment_entry((d[1] + d[2]) * UTILITY_CARD_MULTIPLIER,
                                               owner, "RENT", "RENT", target)
            IN WithSpace(request_payment(e2, pid, payment, turn_index, rolled_double, <<>>), target)
       ELSE LET owned == count_owned(e1, owner, "RAILROAD")
            IN IF owned <= 0 THEN Ret(e1, NoDecision, -1)
               ELSE WithSpace(
                       request_payment(e1, pid,
                           build_payment_entry(RAILROAD_RENTS[Min(owned, 4)] * 2,
                                               owner, "RENT", "RENT", target),
                           turn_index, rolled_double, <<>>),
                       target)

\* the ELECTED_CHAIRMAN_PAY_EACH_PLAYER_50 branch
chairman_card(e, card_id, pid, turn_index, rolled_double) ==
    LET others == SetToSortedSeq({o \in Players : o # pid /\ ~e.state.players[o].bankrupt})
        payments == [k \in 1..Len(others) |->
                        build_payment_entry(50, others[k], card_id, "CARD", -1)]
        e1 == process_payment_queue(e, pid, payments, turn_index, rolled_double)
    IN WithSpace(e1, e1.state.players[pid].position)

\* the GENERAL_REPAIRS / STREET_REPAIRS branches
repairs_card(e, card_id, pid, turn_index, rolled_double) ==
    LET total == IF card_id = "GENERAL_REPAIRS"
                 THEN repairs_cost(e, pid, CHANCE_REPAIR_HOUSE_COST, CHANCE_REPAIR_HOTEL_COST)
                 ELSE repairs_cost(e, pid, COMMUNITY_REPAIR_HOUSE_COST, COMMUNITY_REPAIR_HOTEL_COST)
    IN IF total > 0
       THEN card_payment(e, pid, total, card_id, turn_index, rolled_double)
       ELSE Ret(e, NoDecision, -1)

\* Engine._apply_card_effect
apply_card_effect(e, deck_type, card_id, pid, turn_index, rolled_double) ==
    CASE CardTarget(card_id) # -1 ->
            move_player_to(e, pid, CardTarget(card_id), turn_index, TRUE, rolled_double)
      [] card_id \in {"GO_TO_NEAREST_UTILITY", "GO_TO_NEAREST_RAILROAD_A",
                      "GO_TO_NEAREST_RAILROAD_B"} ->
            nearest_card(e, card_id, pid, turn_index, rolled_double)
      [] CardCash(card_id) # 0 ->
            Ret(apply_cash_delta(e, pid, CardCash(card_id), card_id, turn_index), NoDecision, -1)
      [] card_id = "GO_BACK_3_SPACES" ->
            move_player_to(e, pid, (e.state.players[pid].position - 3) % BOARD_SIZE,
                           turn_index, FALSE, rolled_double)
      [] card_id = "GO_TO_JAIL" ->
            Ret(send_player_to_jail(e, pid, IF deck_type = "CHANCE" THEN "CHANCE_CARD"
                                            ELSE "COMMUNITY_CHEST_CARD", turn_index),
                NoDecision, -1)
      [] card_id \in {"GENERAL_REPAIRS", "STREET_REPAIRS"} ->
            repairs_card(e, card_id, pid, turn_index, rolled_double)
      [] CardFee(card_id) # 0 ->
            card_payment(e, pid, CardFee(card_id), card_id, turn_index, rolled_double)
      [] card_id = "ELECTED_CHAIRMAN_PAY_EACH_PLAYER_50" ->
            chairman_card(e, card_id, pid, turn_index, rolled_double)
      [] card_id = "BIRTHDAY_COLLECT_10_FROM_EACH_PLAYER" ->
            Ret(birthday(e, pid, card_id, turn_index, 1), NoDecision, -1)
      [] OTHER -> Ret(e, NoDecision, -1)

\* Engine._draw_card
draw_card(e, deck_type, pid, turn_index, rolled_double) ==
    LET deck == IF deck_type = "CHANCE" THEN e.chance_deck ELSE e.community_chest_deck
    IN IF deck = <<>> THEN Ret(e, NoDecision, -1)
       ELSE LET card_id == Head(deck)
                e1 == IF deck_type = "CHANCE"
                      THEN [e EXCEPT !.chance_deck = Tail(@)]
                      ELSE [e EXCEPT !.community_chest_deck = Tail(@)]
                e2 == build_event(e1, "CARD_DRAWN", pid,
                                  PLK(pid, 0, 0, NoPlayer, deck_type, card_id), turn_index)
            IN IF card_id = "GET_OUT_OF_JAIL_FREE"
               THEN Ret([e2 EXCEPT !.state.players[pid].get_out_of_jail_cards = @ + 1,
                                   !.jail_card_sources[pid] = Append(@, deck_type)],
                        NoDecision, -1)
               ELSE LET e3 == apply_card_effect(e2, deck_type, card_id, pid,
                                                turn_index, rolled_double)
                    IN IF deck_type = "CHANCE"
                       THEN [e3 EXCEPT !.chance_deck = Append(@, card_id)]
                       ELSE [e3 EXCEPT !.community_chest_deck = Append(@, card_id)]

\* Engine._resolve_landing
resolve_landing(e, pid, i, dice_total, turn_index, rolled_double) ==
    LET space == e.state.board[i]
        owner == space.owner_id
    IN CASE SpaceKind(i) \in {"CHANCE", "COMMUNITY_CHEST"} ->
              draw_card(e, SpaceKind(i), pid, turn_index, rolled_double)
         [] SpaceKind(i) \in OWNABLE_KINDS ->
              IF owner = NoPlayer
              THEN LET e1 == build_buy_or_auction_decision(
                                [e EXCEPT !.state.phase = "AWAITING_DECISION"], pid, i)
                   IN Ret(e1, e1.rd, i)
              ELSE IF owner = pid \/ e.state.players[owner].bankrupt \/ space.mortgaged
              THEN Ret(e, NoDecision, -1)
              ELSE LET rent == calculate_rent(e, i, owner, dice_total)
                   IN IF rent > 0
                      THEN WithSpace(pay_rent(e, pid, owner, rent, i, turn_index, rolled_double), i)
                      ELSE Ret(e, NoDecision, -1)
         [] SpaceKind(i) = "TAX" ->
              IF TAX_AMOUNTS(i) > 0
              THEN WithSpace(pay_tax(e, pid, TAX_AMOUNTS(i),
                                     IF i = 4 THEN "TAX_INCOME" ELSE "TAX_LUXURY",
                                     turn_index, rolled_double), i)
              ELSE Ret(e, NoDecision, -1)
         [] SpaceKind(i) = "GO_TO_JAIL" ->
              Ret(send_player_to_jail(e, pid, "GO_TO_JAIL", turn_index), NoDecision, -1)
         [] OTHER -> Ret(e, NoDecision, -1)

\* Engine._move_player
move_player(e, pid, steps, turn_index, rolled_double) ==
    LET from_pos == e.state.players[pid].position
        to_pos == (from_pos + steps) % BOARD_SIZE
    IN resolve_landing(moved(e, pid, from_pos, to_pos, to_pos < from_pos, turn_index),
                       pid, to_pos, steps, turn_index, rolled_double)

\* the decision a move returned becomes the pending decision
\* (shared tail of _run_turn, _move_after_roll and roll_for_doubles)
after_move(e, pid, is_double, turn_index) ==
    IF e.rd # NoDecision
    THEN request_decision(e, pid,
            [present |-> TRUE, player_id |-> pid, decision_type |-> "",
             rolled_double |-> is_double,
             space_index |-> IF e.rsi # -1 THEN e.rsi ELSE e.state.players[pid].position],
            turn_index)
    ELSE maybe_start_post_turn_decision(e, pid, is_double)

\* Engine._move_after_roll
move_after_roll(e, pid, d1, d2, turn_index) ==
    LET is_double == d1 = d2
        e1 == [e EXCEPT !.state.players[pid].doubles_count = IF is_double THEN @ + 1 ELSE 0,
                        !.state.phase = "RESOLVING_MOVE"]
        e2 == build_event(e1, "DICE_ROLLED", pid, PL(pid, d1, d2, ""), turn_index)
    IN IF is_double /\ e2.state.players[pid].doubles_count >= 3
       THEN Ret(end_turn(send_player_to_jail(e2, pid, "THREE_DOUBLES", turn_index), pid, FALSE),
                NoDecision, -1)
       ELSE after_move(move_player(e2, pid, d1 + d2, turn_index, is_double),
                       pid, is_double, turn_index)

\* Engine._roll_and_move
roll_and_move(e, pid, turn_index) ==
    LET d == roll_dice(e)
    IN move_after_roll([e EXCEPT !.rng = @ + 1], pid, d[1], d[2], turn_index)


\* ------------------------------------------------------------------ actions
\* An action payload.  args.space_key: NoKey when the key is absent;
\* args.plan_field: the plan property the args carry ("" when none);
\* args.extra: the args carry a property no action defines;
\* public_message / private_thought: "" when the key is absent.
NoKey == -1
NoArgs == [space_key |-> NoKey, plan_field |-> "", plan |-> <<>>, extra |-> FALSE]
Action(decision_id, name, args) ==
    [schema_version |-> "v1", decision_id |-> decision_id, action |-> name,
     args |-> args, public_message |-> "", private_thought |-> ""]

\* the action a helper returns when it returns None
NoAction == Action(-1, "", NoArgs)

\* str.upper on a building kind
Upper(kind) ==
    CASE kind = "house" -> "HOUSE"
      [] kind = "hotel" -> "HOTEL"
      [] OTHER -> kind

\* Engine._apply_mortgage
apply_mortgage(e, pid, action) ==
    LET space_index == space_index_from_key(action.args.space_key)
        space == e.state.board[space_index]
        value == mortgage_value(space_index)
        turn_index == e.state.turn_index
    IN IF space_index = -1 THEN Raise(e, "Unknown space_key for mortgage.")
       ELSE IF space.owner_id # pid THEN Raise(e, "Cannot mortgage unowned property.")
       ELSE IF space.mortgaged THEN Raise(e, "Property already mortgaged.")
       ELSE IF space.houses > 0 \/ space.hotel
            THEN Raise(e, "Cannot mortgage property with buildings.")
       ELSE IF SpaceGroup(space_index) # "" /\ group_has_buildings(e, SpaceGroup(space_index))
            THEN Raise(e, "Cannot mortgage while group has buildings.")
       ELSE build_event(
               apply_cash_delta([e EXCEPT !.state.board[space_index].mortgaged = TRUE],
                                pid, value, "MORTGAGE", turn_index),
               "PROPERTY_MORTGAGED", pid, PL(pid, space_index, value, ""), turn_index)

\* Engine._apply_unmortgage
apply_unmortgage(e, pid, action) ==
    LET space_index == space_index_from_key(action.args.space_key)
        space == e.state.board[space_index]
        cost == unmortgage_cost(space_index)
        turn_index == e.state.turn_index
    IN IF space_index = -1 THEN Raise(e, "Unknown space_key for unmortgage.")
       ELSE IF space.owner_id # pid THEN Raise(e, "Cannot unmortgage unowned property.")
       ELSE IF ~space.mortgaged THEN Raise(e, "Property not mortgaged.")
       ELSE IF e.state.players[pid].cash < cost THEN Raise(e, "Insufficient cash to unmortgage.")
       ELSE build_event(
               apply_cash_delta([e EXCEPT !.state.board[space_index].mortgaged = FALSE],
                                pid, -cost, "UNMORTGAGE", turn_index),
               "PROPERTY_UNMORTGAGED", pid, PL(pid, space_index, cost, ""), turn_index)

\* Engine._parse_plan: the error of the first bad item ("" when none)
RECURSIVE parse_plan_error(_)
parse_plan_error(raw_plan) ==
    IF raw_plan = <<>> THEN ""
    ELSE LET item == Head(raw_plan)
         IN IF item.count <= 0 THEN "Invalid building count."
            ELSE IF space_index_from_key(item.space_key) = -1 THEN "Unknown space_key."
            ELSE parse_plan_error(Tail(raw_plan))

\* Engine._parse_plan: the parsed plan
parse_plan(raw_plan) ==
    [k \in 1..Len(raw_plan) |->
        [space_index |-> space_index_from_key(raw_plan[k].space_key),
         kind |-> Upper(raw_plan[k].kind), count |-> raw_plan[k].count]]

PlanState(e) ==
    [err |-> "", temp |-> [i \in Spaces |-> <<e.state.board[i].houses, e.state.board[i].hotel>>],
     bank_houses_delta |-> 0, bank_hotels_delta |-> 0, total |-> 0, touched_groups |-> {}]

\* "max(values) - min(values) > 1" over the touched groups
uneven(ps) ==
    \E g \in ps.touched_groups :
        LET values == {IF ps.temp[i][2] THEN HOTEL_HOUSE_EQUIV ELSE ps.temp[i][1] :
                          i \in GROUP_INDEXES(g)}
        IN MaxOf(values) - MinOf(values) > 1

\* Engine._validate_build_plan: the loop over the plan items
RECURSIVE build_plan_items(_, _, _, _)
build_plan_items(e, pid, plan, ps) ==
    IF plan = <<>> \/ ps.err # "" THEN ps
    ELSE LET item == Head(plan)
             i == item.space_index
             group == SpaceGroup(i)
             house_cost == HOUSE_COST_BY_GROUP(group)
             houses == ps.temp[i][1]
             hotel == ps.temp[i][2]
             fail(msg) == [ps EXCEPT !.err = msg]
         IN IF e.state.board[i].owner_id # pid THEN fail("Cannot build on unowned property.")
            ELSE IF SpaceKind(i) # "PROPERTY" \/ group = "" \/ group \in {"RAILROAD", "UTILITY"}
                 THEN fail("Invalid build target.")
            ELSE IF \E j \in GROUP_INDEXES(group) : e.state.board[j].owner_id # pid
                 THEN fail("Cannot build without monopoly.")
            ELSE IF group_has_mortgaged(e, group) THEN fail("Cannot build on mortgaged group.")
            ELSE IF item.kind = "HOUSE"
                 THEN IF hotel THEN fail("Cannot build house on hotel.")
                      ELSE IF houses + item.count > HOUSE_LIMIT THEN fail("Too many houses.")
                      ELSE build_plan_items(e, pid, Tail(plan),
                              [ps EXCEPT !.temp[i] = <<houses + item.count, FALSE>>,
                                         !.bank_houses_delta = @ - item.count,
                                         !.total = @ + (house_cost * item.count),
                                         !.touched_groups = @ \cup {group}])
            ELSE IF item.kind = "HOTEL"
                 THEN IF item.count # 1 THEN fail("Hotel build count must be 1.")
                      ELSE IF hotel \/ houses # HOUSE_LIMIT THEN fail("Hotel requires four houses.")
                      ELSE build_plan_items(e, pid, Tail(plan),
                              [ps EXCEPT !.temp[i] = <<0, TRUE>>,
                                         !.bank_hotels_delta = @ - 1,
                                         !.bank_houses_delta = @ + HOUSE_LIMIT,
                                         !.total = @ + house_cost,
                                         !.touched_groups = @ \cup {group}])
            ELSE fail("Unknown build kind.")

\* a validation of build plans that does not compare the levels of a group
validate_build_plan_unlevelled(e, pid, plan) ==
    LET ps == build_plan_items(e, pid, plan, PlanState(e))
    IN IF ps.err # "" THEN ps
       ELSE IF e.state.bank.houses_remaining + ps.bank_houses_delta < 0
            THEN [ps EXCEPT !.err = "Bank houses exhausted."]
       ELSE IF e.state.bank.hotels_remaining + ps.bank_hotels_delta < 0
            THEN [ps EXCEPT !.err = "Bank hotels exhausted."]
       ELSE IF e.state.players[pid].cash < ps.total
            THEN [ps EXCEPT !.err = "Insufficient cash to build."]
       ELSE ps

\* Engine._validate_build_plan
validate_build_plan(e, pid, plan) ==
    LET ps == build_plan_items(e, pid, plan, PlanState(e))
    IN IF ps.err # "" THEN ps
       ELSE IF e.state.bank.houses_remaining + ps.bank_houses_delta < 0
            THEN [ps EXCEPT !.err = "Bank houses exhausted."]
       ELSE IF e.state.bank.hotels_remaining + ps.bank_hotels_delta < 0
            THEN [ps EXCEPT !.err = "Bank hotels exhausted."]
       ELSE IF e.state.players[pid].cash < ps.total
            THEN [ps EXCEPT !.err = "Insufficient cash to build."]
       ELSE IF uneven(ps) THEN [ps EXCEPT !.err = "Uneven building across group."]
       ELSE ps

\* Engine._validate_sell_plan: the loop over the plan items
RECURSIVE sell_plan_items(_, _, _, _)
sell_plan_items(e, pid, plan, ps) ==
    IF plan = <<>> \/ ps.err # "" THEN ps
    ELSE LET item == Head(plan)
             i == item.space_index
             group == SpaceGroup(i)
             house_cost == HOUSE_COST_BY_GROUP(group)
             houses == ps.temp[i][1]
             hotel == ps.temp[i][2]
             fail(msg) == [ps EXCEPT !.err = msg]
         IN IF e.state.board[i].owner_id # pid THEN fail("Cannot sell on unowned property.")
            ELSE IF SpaceKind(i) # "PROPERTY" \/ group = "" \/ group \in {"RAILROAD", "UTILITY"}
                 THEN fail("Invalid sell target.")
            ELSE IF item.kind = "HOUSE"
                 THEN IF hotel THEN fail("Cannot sell house from hotel.")
                      ELSE IF houses < item.count THEN fail("Not enough houses to sell.")
                      ELSE sell_plan_items(e, pid, Tail(plan),
                              [ps EXCEPT !.temp[i] = <<houses - item.count, FALSE>>,
                                         !.bank_houses_delta = @ + item.count,
                                         !.total = @ + ((house_cost * item.count) \div 2),
                                         !.touched_groups = @ \cup {group}])
            ELSE IF item.kind = "HOTEL"
                 THEN IF item.count # 1 THEN fail("Hotel sell count must be 1.")
                      ELSE IF ~hotel THEN fail("No hotel to sell.")
                      ELSE sell_plan_items(e, pid, Tail(plan),
                              [ps EXCEPT !.temp[i] = <<HOUSE_LIMIT, FALSE>>,
                                         !.bank_hotels_delta = @ + 1,
                                         !.bank_houses_delta = @ - HOUSE_LIMIT,
                                         !.total = @ + (house_cost \div 2),
                                         !.touched_groups = @ \cup {group}])
            ELSE fail("Unknown sell kind.")

\* Engine._validate_sell_plan
validate_sell_plan(e, pid, plan) ==
    LET ps == sell_plan_items(e, pid, plan, PlanState(e))
    IN IF ps.err # "" THEN ps
       ELSE IF e.state.bank.houses_remaining + ps.bank_houses_delta < 0
            THEN [ps EXCEPT !.err = "Insufficient bank houses for hotel sale."]
       ELSE IF uneven(ps) THEN [ps EXCEPT !.err = "Uneven building across group."]
       ELSE ps


\* the loop of _apply_build_plan over the validated plan
RECURSIVE build_items(_, _, _)
build_items(e, pid, plan) ==
    IF plan = <<>> THEN e
    ELSE LET item == Head(plan)
             i == item.space_index
             e1 == IF item.kind = "HOUSE"
                   THEN build_event([e EXCEPT !.state.board[i].houses = @ + item.count],
                                    "HOUSE_BUILT", pid, PL(pid, i, item.count, ""),
                                    e.state.turn_index)
                   ELSE build_event([e EXCEPT !.state.board[i].houses = 0,
                                              !.state.board[i].hotel = TRUE],
                                    "HOTEL_BUILT", pid, PL(pid, i, item.count, ""),
                                    e.state.turn_index)
         IN build_items(e1, pid, Tail(plan))

\* the loop of _apply_sell_plan over the validated plan
RECURSIVE sell_items(_, _, _)
sell_items(e, pid, plan) ==
    IF plan = <<>> THEN e
    ELSE LET item == Head(plan)
             i == item.space_index
             e1 == IF item.kind = "HOUSE"
                   THEN build_event([e EXCEPT !.state.board[i].houses = @ - item.count],
                                    "HOUSE_SOLD", pid, PL(pid, i, item.count, ""),
                                    e.state.turn_index)
                   ELSE build_event([e EXCEPT !.state.board[i].hotel = FALSE,
                                              !.state.board[i].houses = HOUSE_LIMIT],
                                    "HOTEL_SOLD", pid, PL(pid, i, item.count, ""),
                                    e.state.turn_index)
         IN sell_items(e1, pid, Tail(plan))

\* a build that takes the buildings without the bank counting them
apply_build_plan_uncounted(e, pid, action) ==
    LET raw_plan == action.args.plan
        plan == parse_plan(raw_plan)
        ps == validate_build_plan(e, pid, plan)
        e2 == IF ps.total > 0
              THEN apply_cash_delta(e, pid, -ps.total, "BUILD", e.state.turn_index)
              ELSE e
    IN IF parse_plan_error(raw_plan) # "" THEN Raise(e, parse_plan_error(raw_plan))
       ELSE IF plan = <<>> THEN Raise(e, "Empty build plan.")
       ELSE IF ps.err # "" THEN Raise(e, ps.err)
       ELSE build_items(e2, pid, plan)

\* Engine._apply_build_plan
apply_build_plan(e, pid, action) ==
    LET raw_plan == action.args.plan
        plan == parse_plan(raw_plan)
        ps == validate_build_plan(e, pid, plan)
        e1 == [e EXCEPT !.state.bank.houses_remaining = @ + ps.bank_houses_delta,
                        !.state.bank.hotels_remaining = @ + ps.bank_hotels_delta]
        e2 == IF ps.total > 0
              THEN apply_cash_delta(e1, pid, -ps.total, "BUILD", e.state.turn_index)
              ELSE e1
    IN IF parse_plan_error(raw_plan) # "" THEN Raise(e, parse_plan_error(raw_plan))
       ELSE IF plan = <<>> THEN Raise(e, "Empty build plan.")
       ELSE IF ps.err # "" THEN Raise(e, ps.err)
       ELSE build_items(e2, pid, plan)

\* a sale that hands the buildings back without the bank counting them
apply_sell_plan_uncounted(e, pid, action) ==
    LET raw_plan == action.args.plan
        plan == parse_plan(raw_plan)
        ps == validate_sell_plan(e, pid, plan)
        e2 == IF ps.total > 0
              THEN apply_cash_delta(e, pid, ps.total, "SELL_BUILDING", e.state.turn_index)
              ELSE e
    IN IF parse_plan_error(raw_plan) # "" THEN Raise(e, parse_plan_error(raw_plan))
       ELSE IF plan = <<>> THEN Raise(e, "Empty sell plan.")
       ELSE IF ps.err # "" THEN Raise(e, ps.err)
       ELSE sell_items(e2, pid, plan)

\* Engine._apply_sell_plan
apply_sell_plan(e, pid, action) ==
    LET raw_plan == action.args.plan
        plan == parse_plan(raw_plan)
        ps == validate_sell_plan(e, pid, plan)
        e1 == [e EXCEPT !.state.bank.houses_remaining = @ + ps.bank_houses_delta,
                        !.state.bank.hotels_remaining = @ + ps.bank_hotels_delta]
        e2 == IF ps.total > 0
              THEN apply_cash_delta(e1, pid, ps.total, "SELL_BUILDING", e.state.turn_index)
              ELSE e1
    IN IF parse_plan_error(raw_plan) # "" THEN Raise(e, parse_plan_error(raw_plan))
       ELSE IF plan = <<>> THEN Raise(e, "Empty sell plan.")
       ELSE IF ps.err # "" THEN Raise(e, ps.err)
       ELSE sell_items(e2, pid, plan)

\* Engine._apply_property_purchase
apply_property_purchase(e, pid, i) ==
    LET price == SpacePrice(i)
        e1 == [e EXCEPT !.state.players[pid].cash = @ - price,
                        !.state.board[i].owner_id = pid]
        e2 == build_event(e1, "PROPERTY_PURCHASED", pid, PL(pid, i, price, ""), e.state.turn_index)
    IN IF e.state.board[i].owner_id # NoPlayer THEN Raise(e, "Property is already owned.")
       ELSE IF e.state.players[pid].cash < price
            THEN Raise(e, "Insufficient cash to buy property.")
       ELSE build_event(e2, "CASH_CHANGED", pid, PL(pid, -price, 0, "buy_property"),
                        e.state.turn_index)

\* Engine._return_jail_card
return_jail_card(e, pid) ==
    LET sources == e.jail_card_sources[pid]
        deck_type == IF sources # <<>> THEN Head(sources) ELSE "CHANCE"
        e1 == IF sources # <<>> THEN [e EXCEPT !.jail_card_sources[pid] = Tail(@)] ELSE e
    IN IF deck_type = "CHANCE"
       THEN [e1 EXCEPT !.chance_deck = Append(@, "GET_OUT_OF_JAIL_FREE")]
       ELSE [e1 EXCEPT !.community_chest_deck = Append(@, "GET_OUT_OF_JAIL_FREE")]

\* a re-check that gives up as soon as the cash is short, whatever is left
\* to mortgage or sell
resolve_pending_payment_hasty(e, pid, turn_index) ==
    LET pending == e.pending_payment
        payment == pending.payment
    IN IF ~pending.present THEN Ret(e, NoDecision, -1)
       ELSE IF e.state.players[pid].cash < payment.amount
       THEN Ret(end_turn([handle_bankruptcy(e, pid, payment.to_player_id, turn_index)
                             EXCEPT !.pending_payment = NoPayment], pid, FALSE),
                NoDecision, -1)
       ELSE maybe_start_post_turn_decision(
                [apply_payment(e, pid, payment, turn_index) EXCEPT !.pending_payment = NoPayment],
                pid, pending.rolled_double)

\* Engine._resolve_pending_payment
resolve_pending_payment(e, pid, turn_index) ==
    LET pending == e.pending_payment
        payment == pending.payment
        rolled_double == pending.rolled_double
        options == compute_liquidation_options(e, pid)
        liquidation_turn == [present |-> TRUE, player_id |-> pid,
                             decision_type |-> "LIQUIDATION_DECISION",
                             rolled_double |-> rolled_double, space_index |-> -1]
    IN IF ~pending.present THEN Ret(e, NoDecision, -1)
       ELSE IF e.state.players[pid].cash < payment.amount
       THEN IF options.mortgageable_space_indices = <<>>
               /\ options.sellable_building_space_indices = <<>>
            THEN LET e1 == handle_bankruptcy(e, pid, payment.to_player_id, turn_index)
                 IN Ret(end_turn([e1 EXCEPT !.pending_payment = NoPayment], pid, FALSE),
                        NoDecision, -1)
            ELSE request_decision(build_liquidation_decision(e, pid, payment, options),
                                  pid, liquidation_turn, turn_index)
       ELSE LET e1 == apply_payment(e, pid, payment, turn_index)
                e2 == process_payment_queue([e1 EXCEPT !.pending_payment = NoPayment], pid,
                                            pending.remaining_payments, turn_index, rolled_double)
            IN IF e2.rd # NoDecision
               THEN request_decision(e2, pid, liquidation_turn, turn_index)
               ELSE maybe_start_post_turn_decision(e2, pid, rolled_double)

\* _validate_action without the comparison of decision ids
validate_action_any_id(e, action, decision) ==
    IF action.schema_version # "v1" THEN "Invalid schema_version"
    ELSE IF action.action \notin SeqToSet(decision.legal_actions)
         THEN "Action not legal for decision"
    ELSE IF action.action \in {"buy_property", "start_auction"} /\ e.pending_turn.space_index = -1
         THEN "Missing pending space_index"
    ELSE IF action.action \in {"mortgage_property", "unmortgage_property"}
            /\ action.args.space_key = NoKey
         THEN "Missing space_key"
    ELSE IF action.action = "build_houses_or_hotel" /\ action.args.plan_field # "build_plan"
         THEN "Missing build_plan"
    ELSE IF action.action = "sell_houses_or_hotel" /\ action.args.plan_field # "sell_plan"
         THEN "Missing sell_plan"
    ELSE ""

\* Engine._validate_action: the error ("" stands for None)
validate_action(e, action, decision) ==
    IF action.schema_version # "v1" THEN "Invalid schema_version"
    ELSE IF action.decision_id # decision.decision_id THEN "Decision id mismatch"
    ELSE IF action.action \notin SeqToSet(decision.legal_actions)
         THEN "Action not legal for decision"
    ELSE IF action.action \in {"buy_property", "start_auction"} /\ e.pending_turn.space_index = -1
         THEN "Missing pending space_index"
    ELSE IF action.action \in {"mortgage_property", "unmortgage_property"}
            /\ action.args.space_key = NoKey
         THEN "Missing space_key"
    ELSE IF action.action = "build_houses_or_hotel" /\ action.args.plan_field # "build_plan"
         THEN "Missing build_plan"
    ELSE IF action.action = "sell_houses_or_hotel" /\ action.args.plan_field # "sell_plan"
         THEN "Missing sell_plan"
    ELSE ""


\* --------------------------------------------------------- the engine calls
\* a public call starts with an empty event list and nothing raised
Call(e) == [e EXCEPT !.events = <<>>, !.err = "", !.rd = NoDecision, !.rsi = -1]

NoMeta == [present |-> FALSE, valid |-> TRUE, error |-> ""]

\* "if decision is not None: return ...; if self._should_end_game(): finish"
finish_call(e) ==
    IF e.err # "" \/ e.rd # NoDecision THEN e
    ELSE Ret(finish_if_ended(e), NoDecision, -1)

\* Engine.apply_action, BUY_OR_AUCTION_DECISION branch
apply_buy_or_auction(e, pid, action, pending_turn) ==
    LET space_index == IF pending_turn.space_index = -1 THEN 0 ELSE pending_turn.space_index
        bought(e1) ==
            IF e1.err # "" THEN e1
            ELSE finish_call(maybe_start_post_turn_decision(e1, pid, pending_turn.rolled_double))
    IN bought(IF action.action = "buy_property"
              THEN apply_property_purchase(e, pid, space_index)
              ELSE IF action.action = "start_auction" THEN e
              ELSE Raise(e, "Unsupported action"))

\* Engine.apply_action, JAIL_DECISION / roll_for_doubles
apply_roll_for_doubles(e, pid) ==
    LET d == roll_dice(e)
        is_double == d[1] = d[2]
        turn_index == e.state.turn_index
        e1 == build_event([e EXCEPT !.rng = @ + 1, !.state.phase = "RESOLVING_MOVE"],
                          "DICE_ROLLED", pid, PL(pid, d[1], d[2], ""), turn_index)
        e2 == [e1 EXCEPT !.state.players[pid].jail_turns = @ + 1]
        e3 == [e1 EXCEPT !.state.players[pid].in_jail = FALSE,
                         !.state.players[pid].jail_turns = 0,
                         !.state.players[pid].doubles_count = 0]
    IN IF ~is_double
       THEN IF e2.state.players[pid].jail_turns >= 3
            THEN IF e2.state.players[pid].cash < JAIL_FINE
                 THEN LET b == handle_bankruptcy(e2, pid, NoPlayer, turn_index)
                      IN finish_call(Ret(end_turn([b EXCEPT !.state.players[pid].in_jail = FALSE,
                                                            !.state.players[pid].jail_turns = 0],
                                                  pid, FALSE),
                                         NoDecision, -1))
                 ELSE request_decision(build_jail_decision(e2, pid), pid,
                         [present |-> TRUE, player_id |-> pid, decision_type |-> "JAIL_DECISION",
                          rolled_double |-> FALSE, space_index |-> -1],
                         turn_index)
            ELSE finish_call(Ret(end_turn(e2, pid, FALSE), NoDecision, -1))
       ELSE finish_call(after_move(move_player(e3, pid, d[1] + d[2], turn_index, FALSE),
                                   pid, FALSE, turn_index))

\* Engine.apply_action, JAIL_DECISION branch
apply_jail(e, pid, action) ==
    LET turn_index == e.state.turn_index
        out == [e EXCEPT !.state.players[pid].in_jail = FALSE,
                         !.state.players[pid].jail_turns = 0]
        fined == apply_cash_delta(e, pid, -JAIL_FINE, "JAIL_FINE", turn_index)
    IN CASE action.action = "use_get_out_of_jail_card"
            /\ e.state.players[pid].get_out_of_jail_cards <= 0 ->
              Raise(e, "No get out of jail cards available.")
         [] action.action \in {"pay_jail_fine", "use_get_out_of_jail_card"} ->
              finish_call(roll_and_move(
                  IF action.action = "pay_jail_fine"
                  THEN [fined EXCEPT !.state.players[pid].in_jail = FALSE,
                                     !.state.players[pid].jail_turns = 0]
                  ELSE return_jail_card(
                           [out EXCEPT !.state.players[pid].get_out_of_jail_cards = @ - 1], pid),
                  pid, turn_index))
         [] action.action = "roll_for_doubles" -> apply_roll_for_doubles(e, pid)
         [] OTHER -> Raise(e, "Unsupported action")

\* Engine.apply_action, POST_TURN_ACTION_DECISION branch
apply_post_turn(e, pid, action, pending_turn) ==
    LET ended(e1) ==
            IF e1.err # "" THEN e1
            ELSE finish_call(Ret(end_turn(e1, pid,
                                          /\ pending_turn.rolled_double
                                          /\ ~e1.state.players[pid].bankrupt
                                          /\ ~e1.state.players[pid].in_jail),
                                 NoDecision, -1))
    IN ended(CASE action.action = "end_turn" -> e
               [] action.action = "mortgage_property" -> apply_mortgage(e, pid, action)
               [] action.action = "unmortgage_property" -> apply_unmortgage(e, pid, action)
               [] action.action = "build_houses_or_hotel" -> apply_build_plan(e, pid, action)
               [] action.action = "sell_houses_or_hotel" -> apply_sell_plan(e, pid, action)
               [] OTHER -> Raise(e, "Unsupported action"))

\* Engine.apply_action, LIQUIDATION_DECISION branch
apply_liquidation(e, pid, action) ==
    LET turn_index == e.state.turn_index
        paid(e1) == IF e1.err # "" THEN e1
                    ELSE finish_call(resolve_pending_payment(e1, pid, turn_index))
    IN IF ~e.pending_payment.present
       THEN Raise(e, "Missing pending payment context for liquidation.")
       ELSE IF action.action = "declare_bankruptcy"
       THEN LET b == handle_bankruptcy(e, pid, e.pending_payment.payment.to_player_id, turn_index)
            IN finish_call(Ret(end_turn([b EXCEPT !.pending_payment = NoPayment], pid, FALSE),
                               NoDecision, -1))
       ELSE paid(CASE action.action = "mortgage_property" -> apply_mortgage(e, pid, action)
                   [] action.action = "sell_houses_or_hotel" -> apply_sell_plan(e, pid, action)
                   [] OTHER -> Raise(e, "Unsupported action"))

\* the events apply_action emits before it looks at the arguments
response_events(e, action, decision, decision_meta) ==
    LET pid == decision.player_id
        turn_index == e.state.turn_index
        e1 == build_event(e, "LLM_DECISION_RESPONSE", pid,
                 PLK(pid, decision.decision_id, IF decision_meta.valid THEN 1 ELSE 0,
                     NoPlayer, action.action, decision_meta.error),
                 turn_index)
        e2 == IF action.public_message # ""
              THEN build_event(e1, "LLM_PUBLIC_MESSAGE", pid,
                               PL(pid, decision.decision_id, 0, action.public_message), turn_index)
              ELSE e1
    IN IF action.private_thought # ""
       THEN build_event(e2, "LLM_PRIVATE_THOUGHT", pid,
                        PL(pid, decision.decision_id, 0, action.private_thought), turn_index)
       ELSE e2

\* Engine.apply_action
apply_action(e0, action, decision_meta) ==
    LET e == Call(e0)
        decision == e.pending_decision
        pending_turn == e.pending_turn
        pid == decision.player_id
        e1 == [response_events(e, action, decision, decision_meta)
                  EXCEPT !.pending_decision = NoDecision, !.pending_turn = NoTurn]
    IN IF e.pending_decision = NoDecision \/ ~e.pending_turn.present
       THEN Raise(e, "No pending decision to apply.")
       ELSE IF validate_action(e, action, decision) # ""
       THEN Raise(e, validate_action(e, action, decision))
       ELSE CASE decision.decision_type = "BUY_OR_AUCTION_DECISION" ->
                   apply_buy_or_auction(e1, pid, action, pending_turn)
              [] decision.decision_type = "JAIL_DECISION" -> apply_jail(e1, pid, action)
              [] decision.decision_type = "POST_TURN_ACTION_DECISION" ->
                   apply_post_turn(e1, pid, action, pending_turn)
              [] decision.decision_type = "LIQUIDATION_DECISION" ->
                   apply_liquidation(e1, pid, action)
              [] OTHER -> Raise(e1, "Unsupported decision type")

\* Engine._run_turn
run_turn(e) ==
    LET pid == current_player(e)
        player == e.state.players[pid]
        turn_index == e.state.turn_index
        e1 == build_event([e EXCEPT !.state.phase = "START_TURN",
                                    !.state.active_player_id = pid],
                          "TURN_STARTED", ACTOR_ENGINE, PL(NoPlayer, 0, 0, ""), turn_index)
        d == roll_dice(e1)
    IN IF player.bankrupt
       THEN Ret([e EXCEPT !.state.active_player_id = next_active_player_id(e, pid)],
                NoDecision, -1)
       ELSE IF player.in_jail
       THEN IF player.jail_turns >= 3 /\ player.cash < JAIL_FINE
            THEN LET b == handle_bankruptcy(e1, pid, NoPlayer, turn_index)
                 IN Ret(end_turn([b EXCEPT !.state.players[pid].in_jail = FALSE,
                                           !.state.players[pid].jail_turns = 0],
                                 pid, FALSE),
                        NoDecision, -1)
            ELSE request_decision(build_jail_decision(e1, pid), pid,
                    [present |-> TRUE, player_id |-> pid, decision_type |-> "JAIL_DECISION",
                     rolled_double |-> FALSE, space_index |-> -1],
                    turn_index)
       ELSE move_after_roll([e1 EXCEPT !.rng = @ + 1], pid, d[1], d[2], turn_index)

\* Engine.advance_until_decision (max_steps = 1, as every caller passes)
advance_until_decision(e0) ==
    LET e == Call(e0)
        e1 == IF ~e.started
              THEN [build_event(e, "GAME_STARTED", ACTOR_ENGINE, PL(NoPlayer, 0, 0, ""), 0)
                       EXCEPT !.started = TRUE]
              ELSE e
    IN IF e1.pending_decision # NoDecision THEN Ret(e1, e1.pending_decision, -1)
       ELSE IF is_game_over(e1) THEN Ret(e1, NoDecision, -1)
       ELSE IF should_end_game(e1) THEN Ret(finish_if_ended(e1), NoDecision, -1)
       ELSE finish_call(run_turn(e1))

\* Engine.request_stop
request_stop(e, reason) == [e EXCEPT !.stop_reason = reason]

\* ------------------------------------------------------- games in progress
\* The positions a game passes through that the initial states start from:
\* a new game, and games some turns in (the tests of the engine reach the
\* same positions by assigning the players' and spaces' fields).
Scenarios ==
    {"fresh", "liquidation", "liquidation_houses", "monopoly", "jail_card", "jail_poor",
     "two_doubles", "liquidation_assets", "jail_poor_assets", "liquidation_deep",
     "hotel_ready", "jail_poor_hotel", "jail_card_late"}

\* the space p1 stands on so that the first roll lands on space 14
BeforeVirginia(seed) ==
    LET d == DiceStream(seed)[1] IN 14 - (d[1] + d[2])

Owned(e, pid, S) ==
    [e EXCEPT !.state.board = [i \in Spaces |->
        IF i \in S THEN [@[i] EXCEPT !.owner_id = pid] ELSE @[i]]]

ScenarioEngine(sc, seed) ==
    LET e == EngineInit(seed)
        debtor == [Owned(Owned(e, 1, {1, 3}), 2, {14})
                     EXCEPT !.state.players[1].cash = 5,
                            !.state.players[1].position = BeforeVirginia(seed)]
        \* p1 holds Mediterranean, mortgaged Baltic and a Chance jail card
        holder == [Owned(e, 1, {1, 3})
                     EXCEPT !.state.board[3].mortgaged = TRUE,
                            !.state.players[1].get_out_of_jail_cards = 1,
                            !.jail_card_sources[1] = <<"CHANCE">>,
                            !.chance_deck = SelectSeq(@, LAMBDA c : c # "GET_OUT_OF_JAIL_FREE")]
    IN CASE sc = "liquidation" -> debtor
         [] sc = "liquidation_deep" ->
              \* p2 has built on its group: the rent of Virginia is 180
              [Owned(debtor, 2, {11, 13, 14})
                 EXCEPT !.state.board[11].houses = 1, !.state.board[13].houses = 1,
                        !.state.board[14].houses = 2,
                        !.state.bank.houses_remaining = DEFAULT_HOUSES - 4]
         [] sc = "two_doubles" ->
              [e EXCEPT !.state.players[1].position = 4,
                        !.state.players[1].doubles_count = 2]
         [] sc = "liquidation_assets" ->
              [Owned(holder, 2, {14})
                 EXCEPT !.state.players[1].cash = 5,
                        !.state.players[1].position = BeforeVirginia(seed)]
         [] sc = "jail_poor_assets" ->
              [holder EXCEPT !.state.players[1].position = Jail_index,
                             !.state.players[1].in_jail = TRUE,
                             !.state.players[1].jail_turns = 2,
                             !.state.players[1].cash = 20]
         [] sc = "hotel_ready" ->
              \* p1 has four houses on each space of its group
              [Owned(e, 1, {1, 3})
                 EXCEPT !.state.board[1].houses = HOUSE_LIMIT,
                        !.state.board[3].houses = HOUSE_LIMIT,
                        !.state.bank.houses_remaining = DEFAULT_HOUSES - 2 * HOUSE_LIMIT]
         [] sc = "jail_poor_hotel" ->
              \* p1, short of the fine, has a hotel and four houses
              [Owned(e, 1, {1, 3})
                 EXCEPT !.state.board[1].hotel = TRUE,
                        !.state.board[3].houses = HOUSE_LIMIT,
                        !.state.bank.houses_remaining = DEFAULT_HOUSES - HOUSE_LIMIT,
                        !.state.bank.hotels_remaining = DEFAULT_HOTELS - 1,
                        !.state.players[1].position = Jail_index,
                        !.state.players[1].in_jail = TRUE,
                        !.state.players[1].jail_turns = 2,
                        !.state.players[1].cash = 20]
         [] sc = "liquidation_houses" ->
              [debtor EXCEPT !.state.board[1].houses = 1, !.state.board[3].houses = 1,
                             !.state.bank.houses_remaining = DEFAULT_HOUSES - 2]
         [] sc = "monopoly" -> Owned(e, 1, {1, 3})
         [] sc = "jail_card" ->
              [e EXCEPT !.state.players[1].position = Jail_index,
                        !.state.players[1].in_jail = TRUE,
                        !.state.players[1].get_out_of_jail_cards = 1,
                        !.jail_card_sources[1] = <<"CHANCE">>,
                        !.chance_deck = SelectSeq(@, LAMBDA c : c # "GET_OUT_OF_JAIL_FREE")]
         [] sc = "jail_card_late" ->
              \* p1 holds a jail card and has failed two rolls in jail
              [e EXCEPT !.state.players[1].position = Jail_index,
                        !.state.players[1].in_jail = TRUE,
                        !.state.players[1].jail_turns = 2,
                        !.state.players[1].get_out_of_jail_cards = 1,
                        !.jail_card_sources[1] = <<"CHANCE">>,
                        !.chance_deck = SelectSeq(@, LAMBDA c : c # "GET_OUT_OF_JAIL_FREE")]
         [] sc = "jail_poor" ->
              [e EXCEPT !.state.players[1].position = Jail_index,
                        !.state.players[1].in_jail = TRUE,
                        !.state.players[1].jail_turns = 2,
                        !.state.players[1].cash = 20]
         [] OTHER -> e

\* ---------------------------------------------------------- action payloads
ACTION_NAMES ==
    {"buy_property", "start_auction", "pay_jail_fine", "roll_for_doubles",
     "use_get_out_of_jail_card", "end_turn", "mortgage_property",
     "unmortgage_property", "build_houses_or_hotel", "sell_houses_or_hotel",
     "declare_bankruptcy"}

SpaceArgs(k) == [NoArgs EXCEPT !.space_key = k]
PlanArgs(field, space_key, kind, count) ==
    [NoArgs EXCEPT !.plan_field = field,
                   !.plan = << [space_key |-> space_key, kind |-> kind, count |-> count] >>]

\* LlmRunner._fallback_action.first_space_key (NoKey stands for None)
first_space_key(indices) ==
    IF indices = <<>> THEN NoKey ELSE SPACE_KEY_BY_INDEX(indices[1])

\* LlmRunner._fallback_action.build_plan_args (NoArgs stands for None)
build_plan_args(decision, indices) ==
    IF indices = <<>> THEN NoArgs
    ELSE LET matching == decision.state.board[indices[1]]
             kind == IF matching.hotel \/ matching.houses >= 4 THEN "HOTEL" ELSE "HOUSE"
         IN PlanArgs("build_plan", first_space_key(indices), kind, 1)

\* LlmRunner._fallback_action.sell_plan_args (NoArgs stands for None)
sell_plan_args(decision, indices) ==
    IF indices = <<>> THEN NoArgs
    ELSE LET matching == decision.state.board[indices[1]]
             kind == IF matching.hotel THEN "HOTEL" ELSE "HOUSE"
         IN PlanArgs("sell_plan", first_space_key(indices), kind, 1)

\* a space the deciding player does not own (Boardwalk, or Park Place)
ForeignKey(decision) ==
    IF decision.state.board[39].owner_id # decision.player_id
    THEN SPACE_KEY_BY_INDEX(39) ELSE SPACE_KEY_BY_INDEX(37)

\* the arguments a caller sends with an action name: the ones the decision's
\* options suggest, and ones the engine has to refuse
GoodArgs(decision, name) ==
    LET o == decision.options
    IN CASE name = "mortgage_property" -> SpaceArgs(first_space_key(o.mortgageable_space_indices))
         [] name = "unmortgage_property" -> SpaceArgs(first_space_key(o.unmortgageable_space_indices))
         [] name = "build_houses_or_hotel" -> build_plan_args(decision, o.buildable_space_indices)
         [] name = "sell_houses_or_hotel" -> sell_plan_args(decision, o.sellable_building_space_indices)
         [] OTHER -> NoArgs

RefusedArgs(decision, name) ==
    LET o == decision.options
    IN CASE name \in {"mortgage_property", "unmortgage_property"} -> {SpaceArgs(ForeignKey(decision))}
         [] name = "build_houses_or_hotel" ->
              {PlanArgs("build_plan", first_space_key(o.buildable_space_indices), "HOUSE", 2)}
         [] name = "sell_houses_or_hotel" ->
              {PlanArgs("sell_plan", ForeignKey(decision), "HOUSE", 1),
               PlanArgs("sell_plan", first_space_key(o.sellable_building_space_indices),
                        "HOUSE", 3)}
         [] OTHER -> {}

\* ------------------------------------------------------ the decision pipeline
\* The action schema (contracts/schemas/action.schema.json, read through
\* schema_registry): the enumerated names and the args each one allows.
SCHEMA_ACTIONS ==
    ACTION_NAMES \cup {"bid_auction", "drop_out", "propose_trade", "accept_trade",
                       "reject_trade", "counter_trade", "NOOP"}

BUILDING_KINDS == {"HOUSE", "HOTEL"}

\* the args of the fallback's placeholder action: {"reason": "fallback"}
NoopArgs == [NoArgs EXCEPT !.plan_field = "reason"]

PlanSchemaErrors(args, field) ==
    IF args.plan_field # field THEN <<"$.args: the plan is a required property">>
    ELSE IF args.space_key # NoKey THEN <<"$.args: additional properties are not allowed">>
    ELSE IF \E k \in 1..Len(args.plan) :
              args.plan[k].count < 1 \/ args.plan[k].kind \notin BUILDING_KINDS
         THEN <<"$.args.plan: invalid item">>
    ELSE <<>>

\* action_validation.validate_action_payload: the list of schema errors
validate_action_payload(action) ==
    LET args == action.args
    IN IF action.schema_version # "v1" THEN <<"$.schema_version: 'v1' was expected">>
       ELSE IF action.action \notin SCHEMA_ACTIONS
            THEN <<"$.action: is not one of the enumerated actions">>
       ELSE IF args.extra THEN <<"$.args: additional properties are not allowed">>
       ELSE IF action.action \in {"mortgage_property", "unmortgage_property"}
            THEN IF args.space_key = NoKey
                 THEN <<"$.args: 'space_key' is a required property">>
                 ELSE IF args.plan_field # ""
                 THEN <<"$.args: additional properties are not allowed">>
                 ELSE <<>>
       ELSE IF action.action = "build_houses_or_hotel" THEN PlanSchemaErrors(args, "build_plan")
       ELSE IF action.action = "sell_houses_or_hotel" THEN PlanSchemaErrors(args, "sell_plan")
       ELSE IF action.action = "NOOP"
            THEN IF args = NoopArgs THEN <<>> ELSE <<"$.args: 'reason' is a required property">>
       ELSE IF args # NoArgs THEN <<"$.args: additional properties are not allowed">>
       ELSE <<>>

\* llm_runner.validate_decision_action
validate_decision_action(decision, action) ==
    validate_action_payload(action)
    \o CondSeq(action.action \notin SeqToSet(decision.legal_actions),
               "Action not in legal_actions")

\* an OpenRouterResult.  error_type "" stands for None; tool_calls is the
\* list message.tool_calls; a tool call carries its name, whether its
\* arguments string is JSON, and the arguments once decoded.
NoToolCall ==
    [present |-> FALSE, name |-> "", arguments_json |-> TRUE, args |-> NoArgs,
     public_message |-> "", private_thought |-> ""]
ToolCall(name, arguments_json, args) ==
    [NoToolCall EXCEPT !.present = TRUE, !.name = name,
                       !.arguments_json = arguments_json, !.args = args]
OkResult(tool_calls) ==
    [ok |-> TRUE, error_type |-> "", error |-> "", tool_calls |-> tool_calls]
ErrorResult(error_type) ==
    [ok |-> FALSE, error_type |-> error_type, error |-> error_type, tool_calls |-> <<>>]

\* llm_runner.parse_tool_call: the first tool call, or an error
parse_tool_call(response_json) ==
    IF response_json.tool_calls # <<>>
    THEN [tool_call |-> Head(response_json.tool_calls), error |-> ""]
    ELSE [tool_call |-> NoToolCall, error |-> "No tool call found"]

\* str.strip().upper().replace("-", "_") on the tool names a model sends
upper_underscore(tool_name) ==
    CASE tool_name \in {"end_turn", "end-turn", "END_TURN"} -> "END_TURN"
      [] tool_name \in {"buy_property", "buy-property"} -> "BUY_PROPERTY"
      [] tool_name \in {"roll_dice", "ROLL_DICE"} -> "ROLL_DICE"
      [] OTHER -> "UPPER"

\* llm_runner._resolve_action_name ("" stands for None)
resolve_action_name(tool_name, legal_actions) ==
    LET allowed == SeqToSet(legal_actions)
    IN IF tool_name \in allowed THEN tool_name
       ELSE IF upper_underscore(tool_name) \in allowed THEN upper_underscore(tool_name)
       ELSE ""

\* llm_runner._filter_action_args: the arguments without the two messages
filter_action_args(tool_call) == tool_call.args

\* tool_call_to_action that stamps the action with the id before the decision's
tool_call_to_action_stale(decision, tool_call) ==
    IF resolve_action_name(tool_call.name, decision.legal_actions) = "" \/ ~tool_call.arguments_json
    THEN NoAction
    ELSE Action(decision.decision_id - 1,
                resolve_action_name(tool_call.name, decision.legal_actions),
                filter_action_args(tool_call))

\* llm_runner.tool_call_to_action (NoAction stands for None)
tool_call_to_action(decision, tool_call) ==
    LET action_name == resolve_action_name(tool_call.name, decision.legal_actions)
    IN IF tool_call.name = "" \/ action_name = "" \/ ~tool_call.arguments_json
       THEN NoAction
       ELSE [Action(decision.decision_id, action_name, filter_action_args(tool_call))
               EXCEPT !.public_message = tool_call.public_message,
                      !.private_thought = tool_call.private_thought]

\* LlmRunner._attempt_from_response: the fields the pipeline reads back
attempt_from_response(result) ==
    LET parsed == parse_tool_call(result)
    IN IF ~result.ok
       THEN [parsed_tool_call |-> NoToolCall, error_type |-> result.error_type,
             validation_errors |-> <<IF result.error # "" THEN result.error
                                      ELSE "OpenRouter error">>]
       ELSE [parsed_tool_call |-> parsed.tool_call, error_type |-> result.error_type,
             validation_errors |-> CondSeq(parsed.error # "", parsed.error)]

\* LlmRunner._build_action_from_attempt: (action, errors, error_reason)
build_action_from_attempt(decision, attempt) ==
    LET action == tool_call_to_action(decision, attempt.parsed_tool_call)
        errors == validate_decision_action(decision, action)
    IN IF ~attempt.parsed_tool_call.present
       THEN [action |-> NoAction,
             errors |-> IF attempt.validation_errors # <<>> THEN attempt.validation_errors
                        ELSE <<"Missing tool call">>,
             error_reason |-> "invalid_tool_call"]
       ELSE IF action = NoAction
       THEN [action |-> NoAction, errors |-> <<"Unable to map tool call to action">>,
             error_reason |-> "invalid_tool_call"]
       ELSE IF errors # <<>>
       THEN [action |-> action, errors |-> errors, error_reason |-> "invalid_action"]
       ELSE [action |-> action, errors |-> <<>>, error_reason |-> ""]

\* llm_runner._map_openrouter_error
map_openrouter_error(error_type) ==
    CASE error_type = "" -> "unknown"
      [] error_type = "no_api_key" -> "no_api_key"
      [] error_type = "http_429" -> "openrouter_http_429"
      [] error_type = "http_5xx" -> "openrouter_http_5xx"
      [] error_type = "http_4xx" -> "openrouter_http_4xx"
      [] error_type = "network_error" -> "openrouter_network_error"
      [] error_type = "invalid_json" -> "invalid_tool_call"
      [] OTHER -> "unknown"

\* a fallback policy that ends the turn whatever the decision
fallback_end_turn(decision) == Action(decision.decision_id, "end_turn", NoArgs)

\* LlmRunner._fallback_action, for the decision types this engine builds
\* (post_turn.options and liquidation.options are the decision's options)
fallback_action(decision) ==
    LET legal_actions == SeqToSet(decision.legal_actions)
        decision_id == decision.decision_id
        o == decision.options
        space_key == first_space_key(o.mortgageable_space_indices)
        unmortgage_key == first_space_key(o.unmortgageable_space_indices)
        sell_args == sell_plan_args(decision, o.sellable_building_space_indices)
        build_args == build_plan_args(decision, o.buildable_space_indices)
        act(name, args) == Action(decision_id, name, args)
    IN IF "buy_property" \in legal_actions THEN act("buy_property", NoArgs)
       ELSE IF "start_auction" \in legal_actions THEN act("start_auction", NoArgs)
       ELSE IF "end_turn" \in legal_actions THEN act("end_turn", NoArgs)
       ELSE IF "declare_bankruptcy" \in legal_actions THEN act("declare_bankruptcy", NoArgs)
       ELSE IF "mortgage_property" \in legal_actions
            THEN IF space_key # NoKey THEN act("mortgage_property", SpaceArgs(space_key))
                 ELSE act("declare_bankruptcy", NoArgs)
       ELSE IF "unmortgage_property" \in legal_actions
            THEN IF unmortgage_key # NoKey
                 THEN act("unmortgage_property", SpaceArgs(unmortgage_key))
                 ELSE act("end_turn", NoArgs)
       ELSE IF "sell_houses_or_hotel" \in legal_actions
            THEN IF sell_args # NoArgs THEN act("sell_houses_or_hotel", sell_args)
                 ELSE IF "declare_bankruptcy" \in legal_actions
                 THEN act("declare_bankruptcy", NoArgs)
                 ELSE act("end_turn", NoArgs)
       ELSE IF "build_houses_or_hotel" \in legal_actions
            THEN IF build_args # NoArgs THEN act("build_houses_or_hotel", build_args)
                 ELSE act("end_turn", NoArgs)
       ELSE IF decision.legal_actions # <<>> THEN act(decision.legal_actions[1], NoArgs)
       ELSE act("NOOP", NoopArgs)

\* f"fallback:{reason}" over the reasons the pipeline gives
fallback_error(reason) ==
    CASE reason = "no_api_key" -> "fallback:no_api_key"
      [] reason = "openrouter_http_429" -> "fallback:openrouter_http_429"
      [] reason = "openrouter_http_5xx" -> "fallback:openrouter_http_5xx"
      [] reason = "openrouter_http_4xx" -> "fallback:openrouter_http_4xx"
      [] reason = "openrouter_network_error" -> "fallback:openrouter_network_error"
      [] reason = "invalid_tool_call" -> "fallback:invalid_tool_call"
      [] reason = "invalid_action" -> "fallback:invalid_action"
      [] reason = "invalid_action_after_pause" -> "fallback:invalid_action_after_pause"
      [] OTHER -> "fallback:unknown"

\* an outcome that never records the fallback
build_decision_outcome_plain(action, attempts, retry_used, fallback_used, fallback_reason) ==
    [action |-> action, decision_meta |-> [present |-> TRUE, valid |-> TRUE, error |-> ""],
     attempts |-> attempts, retry_used |-> retry_used,
     fallback_used |-> FALSE, fallback_reason |-> ""]

\* LlmRunner._build_decision_outcome (fallback_reason "" stands for None)
build_decision_outcome(action, attempts, retry_used, fallback_used, fallback_reason) ==
    [action |-> action,
     decision_meta |->
        IF fallback_used
        THEN [present |-> TRUE, valid |-> FALSE,
              error |-> fallback_error(IF fallback_reason # "" THEN fallback_reason
                                       ELSE "unknown")]
        ELSE [present |-> TRUE, valid |-> TRUE, error |-> ""],
     attempts |-> attempts, retry_used |-> retry_used,
     fallback_used |-> fallback_used, fallback_reason |-> fallback_reason]

NoOutcome == build_decision_outcome(NoAction, 0, FALSE, FALSE, "")

\* LlmRunner._validate_outcome_after_pause
validate_outcome_after_pause(decision, outcome) ==
    IF validate_decision_action(decision, outcome.action) = <<>> THEN outcome
    ELSE build_decision_outcome(fallback_action(decision), outcome.attempts,
                                outcome.retry_used, TRUE, "invalid_action_after_pause")

\* a result that is not ok counts as a transport error, invalid JSON included
is_transport_error_any(result) == ~result.ok

\* "if not result.ok and result.error_type != 'invalid_json'"
is_transport_error(result) == ~result.ok /\ result.error_type # "invalid_json"

\* one entry of artifact_attempts
ArtifactAttempt(result, built) ==
    [error_type |-> result.error_type, errors |-> built.errors,
     error_reason |-> built.error_reason]

\* LlmRunner._resolve_decision from one model result on: the outcome, or no
\* outcome when the attempt is to be retried
resolve_attempt(decision, result, attempts, retry_used) ==
    LET built == build_action_from_attempt(decision, attempt_from_response(result))
    IN IF is_transport_error(result)
       THEN build_decision_outcome(fallback_action(decision), attempts, retry_used, TRUE,
                                   map_openrouter_error(result.error_type))
       ELSE IF built.errors # <<>>
       THEN IF retry_used
            THEN build_decision_outcome(fallback_action(decision), attempts, TRUE, TRUE,
                    IF built.error_reason # "" THEN built.error_reason ELSE "invalid_action")
            ELSE NoOutcome
       ELSE build_decision_outcome(
               IF built.action # NoAction THEN built.action ELSE fallback_action(decision),
               attempts, retry_used, FALSE, "")

\* the action of the outcome came from _fallback_action, not from the model
FromFallback(decision, result) ==
    LET built == build_action_from_attempt(decision, attempt_from_response(result))
    IN is_transport_error(result) \/ built.errors # <<>> \/ built.action = NoAction

\* ------------------------------------------------------- the model client
\* OpenRouterClient.__init__: "max_retries: int = 2" (run.py builds the
\* client with the defaults)
MAX_RETRIES == 2

\* OpenRouterResult, as far as the caller classifies it (status_code 0 and
\* error_type "" stand for None)
OpenRouterResult(ok, status_code, error_type) ==
    [ok |-> ok, status_code |-> status_code, error_type |-> error_type]
NoResult == OpenRouterResult(FALSE, 0, "none")

\* what self._client.post gives back: a response with a status, a body (a
\* JSON object, other JSON, or no JSON) and maybe a request id header, or an
\* httpx.TimeoutException / httpx.RequestError
HttpResponse(status, body, request_id) ==
    [kind |-> "http", status |-> status, body |-> body, request_id |-> request_id]
HttpFailure(kind) ==
    [kind |-> kind, status |-> 0, body |-> "", request_id |-> FALSE]

Responses ==
    {HttpResponse(200, body, id) : body \in {"object", "array", "text"}, id \in BOOLEAN}
    \cup {HttpResponse(status, "text", FALSE) : status \in {404, 429, 503}}
    \cup {HttpFailure(kind) : kind \in {"timeout", "request_error"}}

\* the jitter of a backoff, in milliseconds: self._rng.random() * 0.1
Jitters == {0, 99}

\* OpenRouterClient._backoff_delay, in milliseconds
backoff_delay(attempt, jitter) == 500 * (2 ^ attempt) + jitter

\* OpenRouterClient.__init__ and the locals of create_chat_completion:
\* at       idle, post (a request is due), sleep (backing off), returned, raised
\* attempt  the loop variable
\* requests the HTTP requests sent by the call
\* answers  what came back for each of them
\* slept    the delays slept between them
ClientInit(api_key) ==
    [api_key |-> api_key, at |-> "idle", attempt |-> 0, requests |-> 0,
     answers |-> <<>>, slept |-> <<>>, result |-> NoResult, raised |-> ""]

client_return(c, result) == [c EXCEPT !.at = "returned", !.result = result]
client_raise(c, exception) == [c EXCEPT !.at = "raised", !.raised = exception]
client_sleep(c, jitter) ==
    [c EXCEPT !.at = "sleep", !.slept = Append(@, backoff_delay(c.attempt, jitter))]

\* create_chat_completion: one pass of "for attempt in range(max_retries + 1)",
\* from the post to the return, the continue or the exception
post_answered(c, response, jitter) ==
    LET c1 == [c EXCEPT !.requests = @ + 1, !.answers = Append(@, response)]
        status == response.status
        error_type == IF status = 429 THEN "http_429"
                      ELSE IF 500 <= status /\ status < 600 THEN "http_5xx"
                      ELSE "http_4xx"
        retryable == error_type \in {"http_429", "http_5xx"}
    IN IF response.kind # "http"
       THEN IF c.attempt < MAX_RETRIES THEN client_sleep(c1, jitter)
            ELSE client_return(c1, OpenRouterResult(FALSE, 0, "network_error"))
       ELSE IF status >= 400
            THEN IF retryable /\ c.attempt < MAX_RETRIES THEN client_sleep(c1, jitter)
                 ELSE client_return(c1, OpenRouterResult(FALSE, status, error_type))
       ELSE IF response.body = "text"
            THEN client_return(c1, OpenRouterResult(FALSE, status, "invalid_json"))
       ELSE IF ~response.request_id /\ response.body # "object"
            THEN client_raise(c1, "AttributeError")
       ELSE client_return(c1, OpenRouterResult(TRUE, status, ""))

\* create_chat_completion up to the loop: the keyword arguments it accepts
\* (reasoning is none of them) and "if not self._api_key"
create_chat_completion_called(c, reasoning) ==
    IF reasoning THEN client_raise(c, "TypeError")
    ELSE IF ~c.api_key THEN client_return(c, OpenRouterResult(FALSE, 0, "no_api_key"))
    ELSE [c EXCEPT !.at = "post", !.attempt = 0]

\* LlmRunner.__init__ and the locals of _event_stream / _resolve_decision
RunnerInit ==
    [applied_decision_ids |-> {}, decision |-> NoDecision, artifact_attempts |-> <<>>,
     outcome |-> NoOutcome, by_fallback |-> FALSE, error |-> "",
     paused |-> FALSE, resume_event |-> TRUE, trail |-> <<>>,
     openrouter |-> ClientInit(TRUE)]

\* what the runner did about its decisions, in program order: the entries
\* written to the decision log (decision_started, decision_resolved), the
\* requests made to the model and the actions the engine applied
Step(r, what, decision) ==
    [r EXCEPT !.trail = Append(@, [what |-> what, decision_id |-> decision.decision_id])]

\* a decision nobody logs
emit_nothing(r, decision) == r

\* _resolve_decision: "await emit(... phase="decision_started" ...)"
emit_started(r, decision) == Step(r, "decision_started", decision)

\* _resolve_decision: "await self._openrouter.create_chat_completion(...)"
create_chat_completion(r, decision) == Step(r, "request", decision)

\* _event_stream: the engine applied the action, then
\* "await write_decision(resolved_entry)"
write_resolved(r, decision) ==
    Step(Step(r, "applied", decision), "decision_resolved", decision)

\* "if decision_id in self._applied_decision_ids"
already_applied(r, decision_id) == decision_id \in r.applied_decision_ids

\* ------------------------------------------------------------------- state
\* eng     the Engine object
\* pc      where the caller of the engine stands
\* runner  the LlmRunner's own fields and the locals of its event stream
\* hist    the last call made on the engine: its kind, its action, the engine
\*         before it, and the decision ids applied so far
\* budget  the calls made, the failed calls and the faulty model responses,
\*         and the requests still to reach the coordinator
\* rec     the recorded run: the events and actions written, and the replay
\* mgr     the RunManager's fields, its lock and the run it coordinates
\* task    the runner task the manager spawned: where it stands or waits
\* ws      the websockets: the frames each received and the sends in flight
\* calls   the calls on the manager that are in progress
VARIABLES eng, pc, runner, hist, budget, rec, mgr, task, ws, calls

vars == <<eng, pc, runner, hist, budget, rec, mgr, task, ws, calls>>
coordinator == <<mgr, task, ws, calls>>

NoRec == [events |-> <<>>, actions |-> <<>>, engine |-> <<>>, rest |-> <<>>, replayed |-> <<>>]
\* the fields of the engine a caller can observe
Observed(e) ==
    [state |-> e.state, pending_decision |-> e.pending_decision,
     pending_turn |-> e.pending_turn, pending_payment |-> e.pending_payment,
     seq |-> e.seq, decision_seq |-> e.decision_seq, stop_reason |-> e.stop_reason]
\* the turn the returned events are in, read off the events alone:
\* open     a TURN_STARTED was returned and no TURN_ENDED since
\* player   the player whose turn it is (or was, once it ended)
\* index    the turn_index of its TURN_STARTED
\* dice     the last DICE_ROLLED of the turn (<<>> when none)
\* streak   the player's doubles streak before the call that rolled
\* release  the roll was the roll_for_doubles of a player in jail
\* moved    a PLAYER_MOVED followed that roll
\* unpaired a TURN_STARTED or GAME_ENDED came while a turn was open, or a
\*          TURN_ENDED while none was
\* strayed  a decision was requested outside a turn, or with another turn
\*          index than the TURN_STARTED of its turn
NoOpenTurn ==
    [open |-> FALSE, player |-> NoPlayer, index |-> -1, dice |-> <<>>, streak |-> 0,
     release |-> FALSE, moved |-> FALSE, unpaired |-> FALSE, strayed |-> FALSE]

TurnAfter(t, pre, action, ev) ==
    CASE ev.type = "TURN_STARTED" ->
             [NoOpenTurn EXCEPT !.open = TRUE, !.player = pre.state.active_player_id,
                                !.index = ev.turn_index,
                                !.unpaired = t.unpaired \/ t.open,
                                !.strayed = t.strayed]
      [] ev.type = "DICE_ROLLED" ->
             [t EXCEPT !.dice = <<ev.payload.a, ev.payload.b>>,
                       !.streak = pre.state.players[ev.payload.player_id].doubles_count,
                       !.release = action.action = "roll_for_doubles",
                       !.moved = FALSE]
      [] ev.type = "PLAYER_MOVED" -> [t EXCEPT !.moved = TRUE]
      [] ev.type = "TURN_ENDED" -> [t EXCEPT !.open = FALSE, !.unpaired = @ \/ ~t.open]
      [] ev.type = "GAME_ENDED" -> [t EXCEPT !.unpaired = @ \/ t.open]
      [] ev.type = "LLM_DECISION_REQUESTED" ->
             [t EXCEPT !.strayed = @ \/ ~t.open \/ ev.turn_index # t.index]
      [] OTHER -> t

RECURSIVE TurnThrough(_, _, _, _)
TurnThrough(t, pre, action, events) ==
    IF events = <<>> THEN t
    ELSE TurnThrough(TurnAfter(t, pre, action, Head(events)), pre, action, Tail(events))

\* the places of GAME_ENDED among the events a call returned
GameEndedAt(events) == {k \in 1..Len(events) : events[k].type = "GAME_ENDED"}

\* the last call on the engine: the events it returned (none when it raised)
\* and the sequence numbers the events returned so far end with; games_ended
\* counts the GAME_ENDED events returned so far and late tells that an event
\* was returned after one
NoHist(e) ==
    [op |-> "", action |-> NoAction, pre |-> Observed(e), before |-> <<>>, applied |-> <<>>,
     ended |-> "", events |-> <<>>, seq_from |-> e.seq, seq_to |-> e.seq,
     turn |-> NoOpenTurn, games_ended |-> 0, late |-> FALSE]
NoBudget == [calls |-> 0, bad |-> 0, faults |-> 0, todo |-> <<>>]

\* what a call leaves behind in the engine object: the event list and the
\* decision it returns are locals of the call; err keeps what it raised
Outcome(r) == [r EXCEPT !.events = <<>>, !.rd = NoDecision, !.rsi = -1]

\* the reason of the GAME_ENDED event among the events a call returned
EndedReason(events) ==
    IF \E i \in 1..Len(events) : events[i].type = "GAME_ENDED"
    THEN LET i == CHOOSE i \in 1..Len(events) : events[i].type = "GAME_ENDED"
         IN events[i].payload.reason
    ELSE ""

Called(op, action, pre, r) ==
    [op |-> op, action |-> action, pre |-> Observed(pre), before |-> hist.applied,
     ended |-> EndedReason(r.events),
     events |-> IF r.err = "" THEN r.events ELSE <<>>,
     seq_from |-> hist.seq_to,
     games_ended |-> IF r.err = "" THEN hist.games_ended + Cardinality(GameEndedAt(r.events))
                     ELSE hist.games_ended,
     late |-> \/ hist.late
              \/ r.err = "" /\ r.events # <<>> /\ hist.games_ended > 0
              \/ r.err = "" /\ GameEndedAt(r.events) \ {Len(r.events)} # {},
     turn |-> IF r.err = "" THEN TurnThrough(hist.turn, pre, action, r.events) ELSE hist.turn,
     seq_to |-> IF r.err = "" /\ r.events # <<>>
                THEN r.events[Len(r.events)].seq + 1 ELSE hist.seq_to,
     applied |-> IF op = "apply" /\ r.err = ""
                 THEN Append(hist.applied, action.decision_id) ELSE hist.applied]

\* the call returned r: the engine and the record of the call
Stored(op, action, r) ==
    /\ eng' = Outcome(r)
    /\ hist' = Called(op, action, eng, r)

\* ------------------------------------------------ the coordinator, untouched
\* the websockets that can connect
Sockets == {"w1", "w2"}

\* RunManager.__init__: no client, no runner, no task, the lock free;
\* returned is the run id the last start_run gave back, runs the number of
\* runs start_run created
NoManager ==
    [clients |-> {}, runner |-> FALSE, runner_task |-> FALSE, run_id |-> <<>>,
     paused |-> FALSE, lock |-> 0, waiters |-> <<>>,
     returned |-> <<>>, runs |-> 0]

\* no task was created.
\* st           none, ready (scheduled), running (between two suspension
\*              points), waiting (suspended on wait), done, failed, cancelled
\* at           the statement the task is at
\* woken        Event.wait() was satisfied and the task has not run since
\* must_cancel  CancelledError is thrown into the task when it runs next
\* queue, after the events still to yield, and the statement that follows them
\* to, pend, failed, got   the clients of the last broadcast, and the sends
\*              that are in flight, that raised, that completed
\* exit         how the task ends once the client is closed
\* orphans      the tasks the manager lost its reference to while they lived
\* gated_paused    an advance, an apply or an event was made while paused
\* applied_stopped an action was applied after a stop was requested
NoTask ==
    [st |-> "none", at |-> "", run_id |-> <<>>, wait |-> "", woken |-> FALSE,
     must_cancel |-> FALSE, queue |-> <<>>, after |-> "",
     to |-> {}, pend |-> {}, failed |-> {}, got |-> {},
     exit |-> "", orphans |-> 0, gated_paused |-> FALSE, applied_stopped |-> FALSE]

\* the frames of a socket that are kept: its first ones
FirstFrames == 2

\* a websocket nobody subscribed: the first frames it received, the kinds of
\* frame sent to it, the sends queued on it
NoSocket == [frames |-> <<>>, kinds |-> {}, out |-> <<>>, closed |-> FALSE]

Constructed ==
    /\ mgr = NoManager
    /\ task = NoTask
    /\ ws = [w \in Sockets |-> NoSocket]
    /\ calls = [c \in {} |-> 0]

\* ------------------------------------------------- the engine called directly
\* A caller that holds the engine and calls advance_until_decision and
\* apply_action in any order with any payload, as the engine's tests do.
InitEngine ==
    /\ \E sc \in Scenarios, seed \in Seeds :
          /\ eng = ScenarioEngine(sc, seed)
          /\ hist = NoHist(ScenarioEngine(sc, seed))
    /\ pc = "caller"
    /\ runner = RunnerInit
    /\ budget = NoBudget
    /\ rec = NoRec
    /\ Constructed

\* the decision ids a caller can send: the pending one, the one applied last,
\* and one no decision has carried yet
CallerIds ==
    {eng.decision_seq}
    \cup (IF eng.pending_decision # NoDecision THEN {eng.pending_decision.decision_id} ELSE {})
    \cup (IF hist.applied # <<>> THEN {hist.applied[Len(hist.applied)]} ELSE {})

\* the decision whose options the caller reads its arguments from
SeenDecision == IF eng.pending_decision # NoDecision THEN eng.pending_decision
                ELSE [NoDecision EXCEPT !.state = eng.state, !.player_id = 1]

CallerPayloads ==
    {Action(id, name, args) :
        id \in CallerIds,
        name \in ACTION_NAMES,
        args \in {NoArgs}} \cup
    UNION {{Action(id, name, args) :
               id \in CallerIds,
               args \in {GoodArgs(SeenDecision, name)} \cup RefusedArgs(SeenDecision, name)} :
           name \in ACTION_NAMES}

EngAdvance ==
    /\ pc = "caller"
    /\ budget.calls < MaxCalls
    /\ Stored("advance", NoAction, advance_until_decision(eng))
    /\ budget' = [budget EXCEPT !.calls = @ + 1]
    /\ UNCHANGED <<pc, runner, rec, mgr, task, ws, calls>>

EngApplied(action, r) ==
    /\ r.err # "" => budget.bad < MaxBadCalls
    /\ Stored("apply", action, r)
    /\ budget' = [budget EXCEPT !.calls = @ + 1,
                                !.bad = IF r.err # "" THEN @ + 1 ELSE @]

EngApply ==
    /\ pc = "caller"
    /\ budget.calls < MaxCalls
    /\ \E action \in CallerPayloads : EngApplied(action, apply_action(eng, action, NoMeta))
    /\ UNCHANGED <<pc, runner, rec, mgr, task, ws, calls>>

\* Engine.request_stop, called once by the caller
EngStop ==
    /\ pc = "caller"
    /\ budget.calls < MaxCalls
    /\ eng.stop_reason = ""
    /\ eng' = request_stop(eng, "STOPPED")
    /\ hist' = [Called("stop", NoAction, eng, eng) EXCEPT !.applied = hist.applied]
    /\ budget' = [budget EXCEPT !.calls = @ + 1]
    /\ UNCHANGED <<pc, runner, rec, mgr, task, ws, calls>>

NextEngine == EngAdvance \/ EngApply \/ EngStop

SpecEngine == InitEngine /\ [][NextEngine]_vars

\* --------------------------------------------------------------- the claims
SameGame(a, b) ==
    /\ a.state = b.state
    /\ a.pending_decision = b.pending_decision
    /\ a.pending_turn = b.pending_turn
    /\ a.seq = b.seq

FailedApply == hist.op = "apply" /\ eng.err # ""

\* C1: an apply_action that fails leaves the engine as it was before the
\* call: the same snapshot, the same pending decision still pending, and the
\* same next event sequence number, whatever the cause of the failure.
C1_FailedApplyLeavesEngineUntouched ==
    FailedApply => SameGame(hist.pre, eng)

\* the action answers the decision that is pending
Resolves(e, action) ==
    /\ e.pending_decision # NoDecision
    /\ e.pending_turn.present
    /\ action.decision_id = e.pending_decision.decision_id
    /\ action.action \in SeqToSet(e.pending_decision.legal_actions)

\* C2: apply_action changes the game state only when a decision is pending,
\* the action carries that decision's id and its name is one of the
\* decision's legal_actions; in every other case the call fails.
C2_LegalityClosure ==
    (hist.op = "apply" /\ ~Resolves(hist.pre, hist.action))
        => (eng.err # "" /\ eng.state = hist.pre.state)

\* an action with a legal name and the id of an earlier decision was refused
C2_Witness ==
    /\ FailedApply
    /\ hist.pre.pending_decision # NoDecision
    /\ hist.action.decision_id \in SeqToSet(hist.before)
    /\ hist.action.action \in SeqToSet(hist.pre.pending_decision.legal_actions)
    /\ eng.state = hist.pre.state

\* C3: once an action has been applied for a decision id, a later
\* apply_action with the same id fails with an error saying that the
\* decision was already applied, and does not change the game state.
C3_SecondApplySaysAlreadyApplied ==
    (hist.op = "apply" /\ hist.action.decision_id \in SeqToSet(hist.before))
        => (eng.err = "Decision id already applied" /\ eng.state = hist.pre.state)

\* ------------------------------------------------------------ the LLM runner
\* What a model can send back for a decision.  The answers that name a legal
\* action with the arguments the decision's options suggest:
GoodResults(decision) ==
    {OkResult(<<ToolCall(name, TRUE, GoodArgs(decision, name))>>) :
        name \in SeqToSet(decision.legal_actions)}

\* the transport errors the client reports
TRANSPORT_ERRORS == {"http_429", "http_5xx", "http_4xx", "network_error", "no_api_key"}

\* and the faulty ones: a transport error, a body that is not JSON, no tool
\* call, a tool name that is not legal, arguments that are not JSON, arguments
\* the schema refuses, and arguments only the engine refuses
FaultyResults(decision) ==
    LET legal == SeqToSet(decision.legal_actions)
        first == decision.legal_actions[1]
    IN {ErrorResult(t) : t \in {"http_429", "invalid_json"}}
       \cup {OkResult(<<>>)}
       \cup {OkResult(<<ToolCall("END_TURN", TRUE, NoArgs)>>)}
       \cup {OkResult(<<ToolCall(first, FALSE, NoArgs)>>)}
       \cup {OkResult(<<ToolCall(first, TRUE, [GoodArgs(decision, first) EXCEPT !.extra = TRUE])>>)}
       \cup UNION {{OkResult(<<ToolCall(name, TRUE, args)>>) :
                       args \in RefusedArgs(decision, name)} : name \in legal}

InitRunner ==
    /\ \E sc \in Scenarios, seed \in Seeds :
          /\ eng = ScenarioEngine(sc, seed)
          /\ hist = NoHist(ScenarioEngine(sc, seed))
    /\ pc = "advance"
    /\ runner = RunnerInit
    /\ budget = NoBudget
    /\ rec = NoRec
    /\ Constructed

\* _event_stream: "async with self._advance_lock: advance_until_decision"
RunnerAdvanced(r) ==
    /\ Stored("advance", NoAction, r)
    /\ pc' = IF r.events = <<>> /\ r.rd = NoDecision THEN "done"
             ELSE IF r.rd # NoDecision THEN "attempt"
             ELSE IF is_game_over(r) THEN "done"
             ELSE "advance"
    /\ runner' = IF r.rd # NoDecision
                 THEN [runner EXCEPT !.decision = r.rd, !.artifact_attempts = <<>>,
                                     !.outcome = NoOutcome, !.by_fallback = FALSE]
                 ELSE runner

RunnerAdvance ==
    /\ pc = "advance"
    /\ RunnerAdvanced(advance_until_decision(eng))
    /\ UNCHANGED <<budget, rec, mgr, task, ws, calls>>

\* the model answers an attempt: within the budget of faulty answers
Answers(decision) ==
    GoodResults(decision)
    \cup (IF budget.faults < MaxFaults THEN FaultyResults(decision) ELSE {})

Spent(result) ==
    [budget EXCEPT !.faults = IF result \in GoodResults(runner.decision) THEN @ ELSE @ + 1]

\* _resolve_decision: attempt 1 (no request is made when there are no tools)
RunnerAttempt ==
    /\ pc = "attempt"
    /\ IF runner.decision.legal_actions = <<>>
       THEN /\ runner' = [runner EXCEPT
                             !.outcome = build_decision_outcome(
                                 fallback_action(runner.decision), 0, FALSE, TRUE, "unknown"),
                             !.by_fallback = TRUE]
            /\ pc' = "commit"
            /\ UNCHANGED budget
       ELSE \E result \in Answers(runner.decision) :
               LET decision == runner.decision
                   built == build_action_from_attempt(decision, attempt_from_response(result))
                   outcome == resolve_attempt(decision, result, 1, FALSE)
               IN /\ runner' = [create_chat_completion(emit_started(runner, decision), decision)
                                   EXCEPT
                                   !.artifact_attempts = <<ArtifactAttempt(result, built)>>,
                                   !.outcome = outcome,
                                   !.by_fallback = outcome # NoOutcome
                                                   /\ FromFallback(decision, result)]
                  /\ pc' = IF outcome = NoOutcome THEN "retry" ELSE "commit"
                  /\ budget' = Spent(result)
    /\ UNCHANGED <<eng, hist, rec, mgr, task, ws, calls>>

\* _resolve_decision: attempt 2, made with the retry prompt
RunnerRetry ==
    /\ pc = "retry"
    /\ \E result \in Answers(runner.decision) :
          LET decision == runner.decision
              built == build_action_from_attempt(decision, attempt_from_response(result))
              outcome == resolve_attempt(decision, result, 2, TRUE)
          IN /\ runner' = [create_chat_completion(runner, decision) EXCEPT
                              !.artifact_attempts = Append(@, ArtifactAttempt(result, built)),
                              !.outcome = outcome,
                              !.by_fallback = FromFallback(decision, result)]
             /\ pc' = "commit"
             /\ budget' = Spent(result)
    /\ UNCHANGED <<eng, hist, rec, mgr, task, ws, calls>>

\* _event_stream: the outcome is validated again and applied under the lock
RunnerCommitted(decision, outcome, r) ==
    /\ Stored("apply", outcome.action, r)
    /\ runner' = [(IF r.err = "" THEN write_resolved(runner, decision) ELSE runner) EXCEPT
                     !.outcome = outcome,
                     !.artifact_attempts = <<>>,
                     !.by_fallback = @ \/ outcome # runner.outcome,
                     !.error = r.err,
                     !.applied_decision_ids =
                         IF r.err = "" THEN @ \cup {decision.decision_id} ELSE @]
    /\ pc' = IF r.err # "" THEN "crashed"
             ELSE IF is_game_over(r) THEN "done" ELSE "advance"

RunnerApply(decision, outcome) ==
    RunnerCommitted(decision, outcome,
                    apply_action(eng, outcome.action, outcome.decision_meta))

RunnerCommit ==
    /\ pc = "commit"
    /\ IF already_applied(runner, runner.decision.decision_id)
       THEN /\ runner' = [runner EXCEPT !.error = "Decision already applied."]
            /\ pc' = "crashed"
            /\ UNCHANGED <<eng, hist>>
       ELSE RunnerApply(runner.decision,
                        validate_outcome_after_pause(runner.decision, runner.outcome))
    /\ UNCHANGED <<budget, rec, mgr, task, ws, calls>>

Next == RunnerAdvance \/ RunnerAttempt \/ RunnerRetry \/ RunnerCommit

Spec == InitRunner /\ [][Next]_vars

\* ------------------------------------------------------------------- replay
\* A run is recorded the way the runner writes it (every event to the events
\* log, every applied action to the actions log) with a model that always
\* answers with a legal action, and the finished log is replayed.
InitReplay ==
    /\ \E seed \in Seeds :
          /\ eng = [EngineInit(seed) EXCEPT !.max_turns = MaxReplayTurns]
          /\ hist = NoHist([EngineInit(seed) EXCEPT !.max_turns = MaxReplayTurns])
    /\ pc = "rec_advance"
    /\ runner = RunnerInit
    /\ budget = NoBudget
    /\ rec = NoRec
    /\ Constructed

RecAdvanced(r) ==
    /\ Stored("advance", NoAction, r)
    /\ rec' = [rec EXCEPT !.events = @ \o r.events]
    /\ pc' = IF r.events = <<>> /\ r.rd = NoDecision THEN "rec_done"
             ELSE IF r.rd # NoDecision THEN "rec_apply"
             ELSE IF is_game_over(r) THEN "rec_done"
             ELSE "rec_advance"

RecAdvance ==
    /\ pc = "rec_advance"
    /\ RecAdvanced(advance_until_decision(eng))
    /\ UNCHANGED <<runner, budget, mgr, task, ws, calls>>

RecApplied(action, r) ==
    /\ r.err = ""
    /\ Stored("apply", action, r)
    /\ rec' = [rec EXCEPT !.events = @ \o r.events,
                          !.actions = Append(@, [decision_id |-> action.decision_id,
                                                 action |-> action])]
    /\ pc' = IF is_game_over(r) THEN "rec_done" ELSE "rec_advance"

RecApplies(action) ==
    RecApplied(action, apply_action(eng, action,
                                    [present |-> TRUE, valid |-> TRUE, error |-> ""]))

RecApply ==
    /\ pc = "rec_apply"
    /\ \E name \in SeqToSet(eng.pending_decision.legal_actions) :
          RecApplies(Action(eng.pending_decision.decision_id, name,
                            GoodArgs(eng.pending_decision, name)))
    /\ UNCHANGED <<runner, budget, mgr, task, ws, calls>>

\* replay.replay_actions, entry: a new engine with the recorded seed and
\* parameters, an empty event list, and the loop over the recorded actions
\* (an empty list of actions returns at once)
ReplayStart ==
    /\ pc = "rec_done"
    /\ rec' = [rec EXCEPT !.engine = [EngineInit(eng.seed) EXCEPT !.max_turns = eng.max_turns],
                          !.rest = rec.actions,
                          !.replayed = <<>>]
    /\ pc' = IF rec.actions = <<>> THEN "replayed" ELSE "replay_advance"
    /\ UNCHANGED <<eng, runner, hist, budget, mgr, task, ws, calls>>

ReplayAdvanced(r) ==
    /\ rec' = [rec EXCEPT !.engine = Outcome(r), !.replayed = @ \o r.events]
    /\ pc' = IF r.rd = NoDecision THEN "replayed"
             ELSE IF r.rd.decision_id # Head(rec.rest).decision_id THEN "replay_error"
             ELSE "replay_apply"

\* replay.replay_actions, loop body up to the decision id assertion
ReplayAdvance ==
    /\ pc = "replay_advance"
    /\ ReplayAdvanced(advance_until_decision(rec.engine))
    /\ UNCHANGED <<eng, runner, hist, budget, mgr, task, ws, calls>>

ReplayApplied(r) ==
    /\ rec' = [rec EXCEPT !.engine = Outcome(r), !.replayed = @ \o r.events,
                          !.rest = Tail(@)]
    /\ pc' = IF r.err # "" THEN "replay_error"
             ELSE IF is_game_over(r) \/ Tail(rec.rest) = <<>> THEN "replayed"
             ELSE "replay_advance"

\* replay.replay_actions, rest of the loop body: apply the recorded action
ReplayApply ==
    /\ pc = "replay_apply"
    /\ ReplayApplied(apply_action(rec.engine, Head(rec.rest).action, NoMeta))
    /\ UNCHANGED <<eng, runner, hist, budget, mgr, task, ws, calls>>

NextReplay == RecAdvance \/ RecApply \/ ReplayStart \/ ReplayAdvance \/ ReplayApply

SpecReplay == InitReplay /\ [][NextReplay]_vars

\* C4: engines built with the same seed and parameters and given the same
\* actions produce the same events, so replaying the recorded actions of a
\* run reproduces the recorded event sequence exactly.
C4_ReplayReproducesRun ==
    pc = "replayed" => rec.replayed = rec.events

\* a run was replayed and the replay gave back every recorded event
C4_Witness ==
    pc = "replayed" /\ rec.actions # <<>> /\ rec.replayed = rec.events

\* C5: the runner applies at most one action per decision id over the whole
\* run, and the action it hands to apply_action carries the id of the
\* decision the engine returned as pending most recently.
C5_OneActionPerDecision ==
    /\ \A i, j \in 1..Len(hist.applied) : hist.applied[i] = hist.applied[j] => i = j
    /\ hist.op = "apply" =>
          /\ hist.action.decision_id = runner.decision.decision_id
          /\ hist.pre.pending_decision = runner.decision

\* the runner has applied the actions of two decisions
C5_Witness ==
    /\ hist.op = "apply" /\ eng.err = ""
    /\ Len(hist.applied) >= 2
    /\ Cardinality(runner.applied_decision_ids) = Len(hist.applied)

\* C6: whatever the model returns, the action the pipeline hands to
\* apply_action is accepted by the engine: apply_action never fails inside
\* the runner's loop and no error reaches the caller of the runner.
C6_EngineAcceptsEveryOutcome ==
    pc # "crashed" /\ runner.error = "" /\ (hist.op = "apply" => eng.err = "")

\* the decision in runner.decision is resolved: its outcome is built and is
\* about to be applied
HasOutcome == pc = "commit"

Attempts == runner.artifact_attempts

\* the first attempt failed with a validation error: an action was built
\* from the tool call and validate_decision_action refused it
FirstInvalidAction == Attempts # <<>> /\ Attempts[1].error_reason = "invalid_action"

\* the first attempt failed, and not with a transport error
FirstRetryable ==
    /\ Attempts # <<>>
    /\ Attempts[1].errors # <<>>
    /\ Attempts[1].error_type \notin TRANSPORT_ERRORS

\* C7, as claimed: at most two attempts per decision, and the second one is
\* made if and only if the first failed with a validation error; transport
\* and content errors lead straight to the fallback.
C7_RetryOnlyAfterValidationError ==
    /\ Len(Attempts) <= 2
    /\ HasOutcome => (Len(Attempts) = 2 <=> FirstInvalidAction)
    /\ pc = "retry" => FirstInvalidAction

\* C7, amended: at most two attempts per decision, and the second one is made
\* if and only if the first attempt failed with anything but a transport
\* error (a validation error, invalid JSON, or a missing or unmappable tool
\* call); only a transport error leads straight to the fallback.
C7_RetryUnlessTransportError ==
    /\ Len(Attempts) <= 2
    /\ HasOutcome => (Len(Attempts) = 2 <=> FirstRetryable)
    /\ pc = "retry" => (Len(Attempts) = 1 /\ FirstRetryable)

\* a second attempt was made after a first answer without a tool call
C7_Witness ==
    /\ HasOutcome
    /\ Len(Attempts) = 2
    /\ Attempts[1].error_reason = "invalid_tool_call"

\* C8: retry_used is true exactly when a second attempt was made,
\* fallback_used exactly when the action came from the fallback policy and
\* not from the model, and fallback_reason is set exactly when fallback_used
\* is true.
C8_ConsistentClassification ==
    HasOutcome =>
        /\ runner.outcome.retry_used <=> Len(Attempts) = 2
        /\ runner.outcome.fallback_used <=> runner.by_fallback
        /\ runner.outcome.fallback_reason # "" <=> runner.outcome.fallback_used
        /\ runner.outcome.decision_meta.valid <=> ~runner.outcome.fallback_used

\* two invalid attempts: the retry and the fallback are both recorded
C8_Witness ==
    /\ HasOutcome
    /\ Len(Attempts) = 2
    /\ Attempts[2].errors # <<>>
    /\ runner.outcome.retry_used /\ runner.outcome.fallback_used
    /\ runner.outcome.fallback_reason = "invalid_action"

\* the engine accepts the action for the decision that is pending
Accepted(e, action) ==
    /\ action.action \in SeqToSet(e.pending_decision.legal_actions)
    /\ action.action # "NOOP"
    /\ apply_action(e, action, NoMeta).err = ""

\* C9: for every decision the engine produces, the fallback action is legal:
\* its name is one of the decision's legal_actions, never the NOOP
\* placeholder, and the engine accepts its arguments.
C9_FallbackIsLegal ==
    eng.pending_decision # NoDecision =>
        Accepted(eng, fallback_action(eng.pending_decision))

\* a fallback action was applied for a decision that offered other actions
C9_Witness ==
    /\ hist.op = "apply" /\ eng.err = ""
    /\ runner.outcome.fallback_used
    /\ hist.action = fallback_action(runner.decision)
    /\ Len(runner.decision.legal_actions) >= 2

\* the action the stated priorities pick
PriorityAction(decision) ==
    LET legal == SeqToSet(decision.legal_actions)
    IN IF decision.decision_type = "JAIL_DECISION"
       THEN IF "use_get_out_of_jail_card" \in legal THEN "use_get_out_of_jail_card"
            ELSE IF "pay_jail_fine" \in legal THEN "pay_jail_fine"
            ELSE "roll_for_doubles"
       ELSE IF decision.options.mortgageable_space_indices # <<>> THEN "mortgage_property"
       ELSE IF decision.options.sellable_building_space_indices # <<>>
            THEN "sell_houses_or_hotel"
       ELSE "declare_bankruptcy"

\* C10: in a jail decision the fallback prefers the get-out-of-jail card,
\* then the fine, then the roll; in a liquidation decision it mortgages the
\* first mortgageable property, otherwise sells the first sellable building,
\* and declares bankruptcy only when neither is possible.
C10_FallbackPriorities ==
    eng.pending_decision.decision_type \in {"JAIL_DECISION", "LIQUIDATION_DECISION"} =>
        fallback_action(eng.pending_decision).action = PriorityAction(eng.pending_decision)

\* ------------------------------------------------------------ stop requests
\* the last call was an advance_until_decision made after request_stop on a
\* game that was not over
AdvancedAfterStop ==
    hist.op = "advance" /\ hist.pre.stop_reason # "" /\ hist.pre.state.phase # "GAME_OVER"

\* C14: after request_stop(reason) on an engine whose game is not over, the
\* next advance_until_decision moves the game to GAME_OVER and emits
\* GAME_ENDED with that reason, whatever state the engine was in when the
\* stop was requested, a pending decision included.
C14_StopEndsGameOnNextAdvance ==
    AdvancedAfterStop =>
        eng.state.phase = "GAME_OVER" /\ hist.ended = hist.pre.stop_reason

\* ------------------------------------------------------------ the coordinator
\* The RunManager on one asyncio event loop: requests arrive as calls on the
\* manager, the runner task runs LlmRunner.run with the manager's broadcast
\* handlers, and the websockets complete or fail the sends queued on them.
\* A coroutine runs alone from one suspension point to the next; which of the
\* scheduled coroutines runs next is open.

\* the seeds start_run is called with
RunSeeds == {"s1", "s2"}

\* the websockets that disconnect
MaxDisconnects == 1

\* the turns of a managed game
RunTurns == 2

\* the engine, the runner, the manager, the task, the sockets and the calls
\* as one value a slice of a coroutine takes and gives back
World ==
    [mgr |-> mgr, task |-> task, ws |-> ws, calls |-> calls, eng |-> eng, runner |-> runner]

Becomes(W) ==
    /\ mgr' = W.mgr
    /\ task' = W.task
    /\ ws' = W.ws
    /\ calls' = W.calls
    /\ eng' = W.eng
    /\ runner' = W.runner

TaskOver(t) == t.st \in {"done", "failed", "cancelled"}
TaskAlive(t) == t.st \in {"ready", "running", "waiting"}

\* RunManager._is_running
is_running(m, t) == m.runner_task /\ ~TaskOver(t)

\* RunManager._generate_run_id: "mock-{seed}-{digest of seed and players}",
\* for the one list of players the requests carry
generate_run_id(seed) == <<"mock", seed, "players">>

\* a call on the manager: where it stands, and the sends it waits for
NewCall(op, seed, w) ==
    [op |-> op, seed |-> seed, w |-> w, at |-> "begin", ready |-> TRUE,
     pend |-> {}, failed |-> {}]

\* the call returns (or raises) and leaves the loop; the run id start_run
\* returns is kept, the other calls return nothing
return(W, c, value) ==
    [W EXCEPT !.calls = [i \in (DOMAIN W.calls) \ {c} |-> W.calls[i]],
              !.mgr.returned = IF W.calls[c].op = "start_run" THEN value ELSE @]

\* asyncio.Lock.release on leaving "async with self._lock": the first waiter
\* is woken and no later acquire can pass it
release(W) ==
    IF W.mgr.waiters = <<>> THEN [W EXCEPT !.mgr.lock = 0]
    ELSE LET c == Head(W.mgr.waiters)
         IN [W EXCEPT !.mgr.lock = c, !.mgr.waiters = Tail(@),
                      !.calls[c].ready = TRUE, !.calls[c].at = "locked"]

\* asyncio.Event.set inside LlmRunner.resume: a task suspended in wait() is
\* scheduled and will return from wait() whatever the event is by then
runner_resume(W) ==
    [W EXCEPT !.runner.paused = FALSE, !.runner.resume_event = TRUE,
              !.task = IF @.st = "waiting" /\ @.wait = "barrier"
                       THEN [@ EXCEPT !.st = "ready", !.wait = "", !.woken = TRUE]
                       ELSE @]

\* LlmRunner.request_stop: the engine's stop reason, then resume()
runner_request_stop(W, reason) ==
    runner_resume([W EXCEPT !.eng = request_stop(@, reason)])

\* LlmRunner.pause
runner_pause(W) == [W EXCEPT !.runner.paused = TRUE, !.runner.resume_event = FALSE]

\* the sends of coroutine by (0 is the runner task) are taken off the sockets
Unsent(sockets, by) ==
    [w \in Sockets |-> [sockets[w] EXCEPT !.out = SelectSeq(@, LAMBDA m : m.by # by)]]

\* a stop that does not cancel the task
task_cancel_none(W) == W

\* Task.cancel: a task that is suspended is scheduled with CancelledError, and
\* what it awaited (the gather and its sends, the model call) is cancelled
task_cancel(W) ==
    IF TaskOver(W.task) THEN W
    ELSE [W EXCEPT !.task = [@ EXCEPT !.st = "ready", !.wait = "", !.must_cancel = TRUE,
                                      !.pend = {}, !.failed = {}],
                   !.ws = Unsent(@, 0)]

\* RunManager._broadcast for the coroutine by: nothing to wait for without
\* clients; otherwise one send per client, and a closed socket fails its send
BroadcastTo(W) == W.mgr.clients
Queued(W, by, kind) ==
    [w \in Sockets |->
        IF w \in BroadcastTo(W) /\ ~W.ws[w].closed
        THEN [W.ws[w] EXCEPT !.out = Append(@, [by |-> by, kind |-> kind]),
                             !.kinds = @ \cup {kind}]
        ELSE W.ws[w]]
Pending(W) == {w \in BroadcastTo(W) : ~W.ws[w].closed}
Refused(W) == {w \in BroadcastTo(W) : W.ws[w].closed}

\* a broadcast that keeps the clients whose send raised
discard_nothing(W, failed) == W

\* "for client, result in zip(clients, results): if isinstance(result,
\* Exception): self._clients.discard(client)"
discard_failed(W, failed) == [W EXCEPT !.mgr.clients = @ \ failed]

\* start_run, line 72: the task is created and the call returns the run id
start_run_spawn(W, c) ==
    LET W1 == discard_failed(W, W.calls[c].failed)
        W2 == [W1 EXCEPT !.mgr.runner_task = TRUE,
                         !.task = [NoTask EXCEPT !.st = "ready", !.at = "start",
                                                 !.run_id = W.mgr.run_id,
                                                 !.orphans = W.task.orphans
                                                     + (IF TaskAlive(W.task) THEN 1 ELSE 0)]]
    IN release(return(W2, c, generate_run_id(W.calls[c].seed)))

\* start_run, lines 56-71: the new runner and its engine, and the initial
\* snapshot broadcast while the lock is held
start_run_new(W, c) ==
    LET seed == W.calls[c].seed
        W1 == [W EXCEPT !.mgr.run_id = generate_run_id(seed),
                        !.mgr.runs = @ + 1,
                        !.mgr.runner = TRUE,
                        !.mgr.paused = FALSE,
                        !.eng = [EngineInit(seed) EXCEPT !.max_turns = RunTurns],
                        !.runner = RunnerInit]
    IN IF W1.mgr.clients = {} THEN start_run_spawn(W1, c)
       ELSE [W1 EXCEPT !.ws = Queued(W1, c, "SNAPSHOT"),
                       !.calls[c].at = "snapshot",
                       !.calls[c].pend = Pending(W1),
                       !.calls[c].failed = Refused(W1),
                       !.calls[c].ready = Pending(W1) = {}]

\* _stop_run_locked, lines 164-166, and what the caller does next
stop_run_cleared(W, c) ==
    LET W1 == [W EXCEPT !.mgr.runner_task = FALSE, !.mgr.runner = FALSE,
                        !.mgr.paused = FALSE]
    IN IF W.calls[c].op = "stop_run" THEN release(return(W1, c, <<"stopped">>))
       ELSE start_run_new(W1, c)

\* _stop_run_locked, "await task" once the task is over: the error of a task
\* that failed is raised again, and only CancelledError is caught
stop_run_awaited(W, c) ==
    IF W.task.st = "failed" THEN release(return(W, c, <<"raised">>))
    ELSE stop_run_cleared(W, c)

\* a stop that cancels the task and does not await it
stop_run_unawaited(W, c) == stop_run_cleared(task_cancel(W), c)

\* RunManager._stop_run_locked, lines 150-161
stop_run_locked(W, c) ==
    IF ~W.mgr.runner_task
    THEN release(return(W, c, <<"stopped">>))
    ELSE LET W1 == IF W.mgr.runner
                   THEN runner_resume(runner_request_stop(W, "STOPPED"))
                   ELSE W
             W2 == task_cancel(W1)
         IN IF TaskAlive(W2.task)
            THEN [W2 EXCEPT !.calls[c].at = "stopping", !.calls[c].ready = FALSE]
            ELSE stop_run_awaited(W2, c)

\* a start_run that takes every request for a new run
start_run_always(W, c) ==
    IF is_running(W.mgr, W.task) THEN stop_run_locked(W, c) ELSE start_run_new(W, c)

\* RunManager.start_run, lines 47-55, with the lock held
start_run_locked(W, c) ==
    LET run_id == generate_run_id(W.calls[c].seed)
        W1 == IF W.mgr.runner_task /\ TaskOver(W.task)
              THEN [W EXCEPT !.mgr.runner_task = FALSE] ELSE W
    IN IF is_running(W.mgr, W.task) /\ W.mgr.run_id = run_id
       THEN release(return(W, c, run_id))
       ELSE IF is_running(W1.mgr, W1.task) THEN stop_run_locked(W1, c)
       ELSE start_run_new(W1, c)

\* RunManager.pause
pause(W, c) ==
    IF ~W.mgr.runner \/ ~is_running(W.mgr, W.task) \/ W.mgr.paused
    THEN release(return(W, c, <<"ignored">>))
    ELSE release(return(runner_pause([W EXCEPT !.mgr.paused = TRUE]), c, <<"paused">>))

\* RunManager.resume
resume(W, c) ==
    IF ~W.mgr.runner \/ ~is_running(W.mgr, W.task)
    THEN release(return([W EXCEPT !.mgr.paused = FALSE], c, <<"ignored">>))
    ELSE IF ~W.mgr.paused THEN release(return(W, c, <<"ignored">>))
    ELSE release(return(runner_resume([W EXCEPT !.mgr.paused = FALSE]), c, <<"resumed">>))

\* the body of a call once it holds the lock
locked(W, c) ==
    CASE W.calls[c].op = "start_run" -> start_run_locked(W, c)
      [] W.calls[c].op = "stop_run" -> stop_run_locked(W, c)
      [] W.calls[c].op = "pause" -> pause(W, c)
      [] OTHER -> resume(W, c)

\* "async with self._lock": a free lock is taken without suspending
acquire(W, c) ==
    IF W.mgr.lock = 0
    THEN locked([W EXCEPT !.mgr.lock = c], c)
    ELSE [W EXCEPT !.mgr.waiters = Append(@, c),
                   !.calls[c].at = "lock", !.calls[c].ready = FALSE]

\* one send of a call on one socket, which the call awaits
call_send(W, c, w, kind, at) ==
    IF W.ws[w].closed
    THEN [W EXCEPT !.calls[c].at = at, !.calls[c].pend = {}, !.calls[c].failed = {w},
                   !.calls[c].ready = TRUE]
    ELSE [W EXCEPT !.ws[w].out = Append(@, [by |-> c, kind |-> kind]),
                   !.ws[w].kinds = @ \cup {kind},
                   !.calls[c].at = at, !.calls[c].pend = {w}, !.calls[c].failed = {},
                   !.calls[c].ready = FALSE]

\* RunManager.subscribe: the socket joins the clients, then HELLO is sent
subscribe(W, c) ==
    call_send([W EXCEPT !.mgr.clients = @ \cup {W.calls[c].w}], c, W.calls[c].w, "HELLO", "hello")

\* subscribe after a send: "except Exception: self._clients.discard(websocket)"
subscribe_sent(W, c) ==
    IF W.calls[c].failed # {}
    THEN return([W EXCEPT !.mgr.clients = @ \ {W.calls[c].w}], c, <<"failed">>)
    ELSE IF W.calls[c].at = "hello"
    THEN call_send(W, c, W.calls[c].w, "SNAPSHOT", "snapshot")
    ELSE return(W, c, <<"subscribed">>)

\* a scheduled call runs to its next suspension point or to its end
call_step(W, c) ==
    LET call == W.calls[c]
    IN CASE call.at = "begin" ->
              IF call.op = "subscribe" THEN subscribe(W, c) ELSE acquire(W, c)
         [] call.at = "locked" -> locked(W, c)
         [] call.at = "stopping" -> stop_run_awaited(W, c)
         [] call.op = "subscribe" -> subscribe_sent(W, c)
         [] OTHER -> start_run_spawn(W, c)

\* a send on socket w ends, well or with an exception, for the coroutines in
\* senders: the gather (or the await) of each is over once nothing is pending
settled(W, w, senders, ok) ==
    [W EXCEPT
        !.task = IF 0 \in senders
                 THEN [@ EXCEPT !.pend = @ \ {w},
                                !.got = IF ok THEN @ \cup {w} ELSE @,
                                !.failed = IF ok THEN @ ELSE @ \cup {w},
                                !.st = IF W.task.pend \ {w} = {} THEN "ready" ELSE @,
                                !.wait = IF W.task.pend \ {w} = {} THEN "" ELSE @]
                 ELSE @,
        !.calls = [c \in DOMAIN W.calls |->
                     IF c \in senders
                     THEN [W.calls[c] EXCEPT !.pend = @ \ {w},
                                             !.failed = IF ok THEN @ ELSE @ \cup {w},
                                             !.ready = W.calls[c].pend \ {w} = {}]
                     ELSE W.calls[c]]]

\* the socket takes the frame at the head of its queue
delivered(W, w) ==
    LET m == Head(W.ws[w].out)
    IN settled([W EXCEPT !.ws[w].frames = IF Len(@) < FirstFrames THEN Append(@, m.kind) ELSE @,
                         !.ws[w].out = Tail(@)],
               w, {m.by}, TRUE)

\* the socket is gone: every send queued on it raises, and so will later ones
disconnected(W, w) ==
    settled([W EXCEPT !.ws[w].out = <<>>, !.ws[w].closed = TRUE],
            w, {W.ws[w].out[i].by : i \in 1..Len(W.ws[w].out)}, FALSE)

\* the task is over: whoever awaits it is scheduled
task_over(W, st) ==
    [W EXCEPT !.task.st = st, !.task.wait = "", !.task.must_cancel = FALSE,
              !.calls = [c \in DOMAIN W.calls |->
                           IF W.calls[c].at = "stopping"
                           THEN [W.calls[c] EXCEPT !.ready = TRUE] ELSE W.calls[c]]]

\* run(), "finally: await self._close_openrouter()", entered with the way
\* the task will end
closing(t, exit) ==
    [t EXCEPT !.st = "waiting", !.wait = "close", !.at = "closing", !.exit = exit,
              !.woken = FALSE, !.must_cancel = FALSE]

\* RunManager._broadcast called by the runner task
task_broadcast(W, kind, at) ==
    IF W.mgr.clients = {}
    THEN [W EXCEPT !.task.at = at, !.task.st = "running",
                   !.task.to = {}, !.task.pend = {}, !.task.failed = {}, !.task.got = {}]
    ELSE [W EXCEPT !.ws = Queued(W, 0, kind),
                   !.task.at = at,
                   !.task.st = IF Pending(W) = {} THEN "ready" ELSE "waiting",
                   !.task.wait = IF Pending(W) = {} THEN "" ELSE "sends",
                   !.task.to = W.mgr.clients,
                   !.task.pend = Pending(W),
                   !.task.failed = Refused(W),
                   !.task.got = {}]

\* the event loop is not inside the runner task
Quiet == task.st # "running"

\* the runner task runs, at the statement named
Runs(at) == task.st \in {"ready", "running"} /\ ~task.must_cancel /\ task.at = at

\* LlmRunner._await_resume returns: the event is set, or wait() was satisfied
Passes == runner.resume_event \/ task.woken

\* the statements that follow "await self._await_resume()"
Gated == {"advance", "event", "resolve", "commit"}

\* the events still to yield after the one at the head, and where the task is then
Yielded(t) ==
    [t EXCEPT !.queue = Tail(@), !.st = "running",
              !.at = IF Tail(t.queue) # <<>> THEN "event" ELSE t.after]

\* the events of a call are queued to be yielded one by one
Yielding(t, events, after) ==
    [t EXCEPT !.queue = [i \in 1..Len(events) |-> events[i].type],
              !.after = after, !.st = "running", !.woken = FALSE,
              !.at = IF events # <<>> THEN "event" ELSE after,
              !.gated_paused = @ \/ runner.paused]

SNAPSHOT_EVENTS == {"LLM_DECISION_REQUESTED", "TURN_ENDED", "GAME_ENDED"}

\* what the model answers in a managed run: the first legal action, or (once)
\* a legal action with arguments the engine refuses
RunAnswers(decision) ==
    {OkResult(<<ToolCall(decision.legal_actions[1], TRUE,
                         GoodArgs(decision, decision.legal_actions[1]))>>)}
    \cup (IF budget.bad < MaxBadCalls
          THEN UNION {{OkResult(<<ToolCall(name, TRUE, args)>>) :
                          args \in RefusedArgs(decision, name)} :
                      name \in SeqToSet(decision.legal_actions)}
          ELSE {})

\* the requests the manager receives, in the order they arrive; when each
\* arrives is open
Start(seed) == NewCall("start_run", seed, "")
Subscribe(w) == NewCall("subscribe", "", w)
Stop == NewCall("stop_run", "", "")
Pause == NewCall("pause", "", "")
Resume == NewCall("resume", "", "")

Workloads ==
    { <<Start("s1"), Pause, Resume, Pause>>,
      <<Start("s1"), Pause, Stop>>,
      <<Start("s1"), Start("s1"), Start("s2"), Stop>>,
      <<Start("s1"), Subscribe("w1"), Subscribe("w2")>>,
      <<Subscribe("w1"), Subscribe("w2"), Start("s1"), Stop>> }

InitCoordinator ==
    /\ eng = EngineInit("s1")
    /\ hist = NoHist(EngineInit("s1"))
    /\ pc = "coordinator"
    /\ runner = RunnerInit
    /\ \E todo \in Workloads : budget = [NoBudget EXCEPT !.todo = todo]
    /\ rec = NoRec
    /\ Constructed

\* a request reaches the manager: the call is made and runs to its first
\* suspension point
Requested(c, call) ==
    Becomes(call_step([World EXCEPT
                          !.calls = [i \in (DOMAIN calls) \cup {c} |->
                                       IF i = c THEN call ELSE calls[i]]],
                      c))

Request ==
    /\ Quiet
    /\ budget.todo # <<>>
    /\ Requested(budget.calls + 1, Head(budget.todo))
    /\ budget' = [budget EXCEPT !.calls = @ + 1, !.todo = Tail(@)]
    /\ UNCHANGED <<pc, hist, rec>>

\* a call that was woken runs on
CallStep ==
    /\ Quiet
    /\ \E c \in DOMAIN calls : calls[c].ready /\ Becomes(call_step(World, c))
    /\ UNCHANGED <<pc, hist, budget, rec>>

\* a websocket completes the send at the head of its queue
Deliver ==
    /\ Quiet
    /\ \E w \in Sockets : ws[w].out # <<>> /\ Becomes(delivered(World, w))
    /\ UNCHANGED <<pc, hist, budget, rec>>

\* a websocket with sends in flight disconnects
Disconnect ==
    /\ Quiet
    /\ budget.faults < MaxDisconnects
    /\ \E w \in Sockets : ws[w].out # <<>> /\ Becomes(disconnected(World, w))
    /\ budget' = [budget EXCEPT !.faults = @ + 1]
    /\ UNCHANGED <<pc, hist, rec>>

\* _run_loop: "if runner is None or self._run_id != run_id: return", then
\* runner.run up to the first barrier of _event_stream
TaskStart ==
    /\ Runs("start")
    /\ IF ~mgr.runner \/ mgr.run_id # task.run_id
       THEN Becomes(task_over(World, "done"))
       ELSE Becomes([World EXCEPT !.task.st = "running", !.task.at = "advance"])
    /\ UNCHANGED <<pc, hist, budget, rec>>

\* _await_resume: the event is clear, the task suspends in wait()
TaskBlock ==
    /\ task.at \in Gated
    /\ Runs(task.at)
    /\ ~Passes
    /\ task' = [task EXCEPT !.st = "waiting", !.wait = "barrier"]
    /\ UNCHANGED <<eng, pc, runner, hist, budget, rec, mgr, ws, calls>>

\* _event_stream: advance_until_decision; the stream ends when it returns
\* neither events nor a decision, and run() sleeps event_delay_s
TaskAdvanced(r) ==
    /\ eng' = Outcome(r)
    /\ runner' = IF r.rd # NoDecision
                 THEN [runner EXCEPT !.decision = r.rd, !.artifact_attempts = <<>>,
                                     !.outcome = NoOutcome, !.by_fallback = FALSE]
                 ELSE runner
    /\ task' = IF r.events = <<>> /\ r.rd = NoDecision
               THEN [task EXCEPT !.st = "waiting", !.wait = "sleep", !.at = "summary",
                                 !.woken = FALSE, !.gated_paused = @ \/ runner.paused]
               ELSE Yielding(task, r.events,
                             IF r.rd # NoDecision THEN "resolve"
                             ELSE IF is_game_over(r) THEN "ended" ELSE "advance")

TaskAdvance ==
    /\ Runs("advance")
    /\ Passes
    /\ TaskAdvanced(advance_until_decision(eng))
    /\ UNCHANGED <<pc, hist, budget, rec, mgr, ws, calls>>

\* run(): the event the stream yields goes to broadcast_event
TaskForward ==
    /\ Runs("event")
    /\ Passes
    /\ Becomes(task_broadcast([World EXCEPT !.task.woken = FALSE,
                                            !.task.gated_paused = @ \/ runner.paused],
                              "EVENT", "event_sent"))
    /\ UNCHANGED <<pc, hist, budget, rec>>

\* _broadcast after the gather, then run(): the snapshot that follows the
\* events in SNAPSHOT_EVENTS goes to broadcast_snapshot
TaskEventSent ==
    /\ Runs("event_sent")
    /\ IF Head(task.queue) \in SNAPSHOT_EVENTS
       THEN Becomes(task_broadcast(discard_failed(World, task.failed),
                                   "SNAPSHOT", "snapshot_sent"))
       ELSE Becomes([discard_failed(World, task.failed) EXCEPT !.task = Yielded(@)])
    /\ UNCHANGED <<pc, hist, budget, rec>>

TaskSnapshotSent ==
    /\ Runs("snapshot_sent")
    /\ Becomes([discard_failed(World, task.failed) EXCEPT !.task = Yielded(@)])
    /\ UNCHANGED <<pc, hist, budget, rec>>

\* _event_stream: "if self._engine.is_game_over(): break", and run() sleeps
TaskEnded ==
    /\ Runs("ended")
    /\ task' = [task EXCEPT !.st = "waiting", !.wait = "sleep", !.at = "summary"]
    /\ UNCHANGED <<eng, pc, runner, hist, budget, rec, mgr, ws, calls>>

\* _resolve_decision: the request to the model (none when there are no tools)
TaskResolve ==
    /\ Runs("resolve")
    /\ Passes
    /\ IF runner.decision.legal_actions = <<>>
       THEN /\ runner' = [runner EXCEPT
                             !.outcome = build_decision_outcome(
                                 fallback_action(runner.decision), 0, FALSE, TRUE, "unknown"),
                             !.by_fallback = TRUE]
            /\ task' = [task EXCEPT !.st = "running", !.at = "commit", !.woken = FALSE]
       ELSE /\ runner' = create_chat_completion(emit_started(runner, runner.decision),
                                                 runner.decision)
            /\ task' = [task EXCEPT !.st = "waiting", !.wait = "model", !.at = "commit",
                                    !.woken = FALSE]
    /\ UNCHANGED <<eng, pc, hist, budget, rec, mgr, ws, calls>>

\* the model answers: _resolve_decision builds the outcome, or asks again
Answered(result, outcome) ==
    /\ runner' = [(IF outcome = NoOutcome
                   THEN create_chat_completion(runner, runner.decision) ELSE runner) EXCEPT
                     !.artifact_attempts = Append(@, ArtifactAttempt(result,
                         build_action_from_attempt(runner.decision, attempt_from_response(result)))),
                     !.outcome = outcome,
                     !.by_fallback = outcome # NoOutcome /\ FromFallback(runner.decision, result)]
    /\ task' = IF outcome = NoOutcome THEN task
               ELSE [task EXCEPT !.st = "ready", !.wait = ""]
    /\ budget' = [budget EXCEPT !.bad = IF result.tool_calls[1].args \in
                                             RefusedArgs(runner.decision, result.tool_calls[1].name)
                                          THEN @ + 1 ELSE @]

ModelAnswers ==
    /\ task.st = "waiting" /\ task.wait = "model"
    /\ \E result \in RunAnswers(runner.decision) :
          Answered(result, resolve_attempt(runner.decision, result,
                                           Len(runner.artifact_attempts) + 1,
                                           runner.artifact_attempts # <<>>))
    /\ UNCHANGED <<eng, pc, hist, rec, mgr, ws, calls>>

\* _event_stream: the outcome is validated again and applied; an error of
\* apply_action, or a decision applied before, ends run() through its finally
TaskCommitted(decision, outcome, r) ==
    /\ eng' = Outcome(r)
    /\ runner' = [(IF r.err = "" THEN write_resolved(runner, decision) ELSE runner) EXCEPT
                     !.outcome = outcome,
                     !.artifact_attempts = <<>>,
                     !.error = r.err,
                     !.applied_decision_ids =
                         IF r.err = "" THEN @ \cup {decision.decision_id} ELSE @]
    /\ task' = IF r.err # ""
               THEN closing([task EXCEPT !.gated_paused = @ \/ runner.paused,
                                         !.applied_stopped = @ \/ eng.stop_reason # ""],
                            "failed")
               ELSE [Yielding(task, r.events,
                              IF is_game_over(r) THEN "ended" ELSE "advance")
                        EXCEPT !.applied_stopped = @ \/ eng.stop_reason # ""]

TaskCommit ==
    /\ Runs("commit")
    /\ Passes
    /\ IF already_applied(runner, runner.decision.decision_id)
       THEN /\ runner' = [runner EXCEPT !.error = "Decision already applied."]
            /\ task' = closing(task, "failed")
            /\ eng' = eng
       ELSE TaskCommitted(runner.decision,
                          validate_outcome_after_pause(runner.decision, runner.outcome),
                          apply_action(eng, validate_outcome_after_pause(runner.decision,
                                                                        runner.outcome).action,
                                       validate_outcome_after_pause(runner.decision,
                                                                    runner.outcome).decision_meta))
    /\ UNCHANGED <<pc, hist, budget, rec, mgr, ws, calls>>

\* the sleep of run() is over, or the client the task closes is closed
TaskWoken ==
    /\ task.st = "waiting" /\ task.wait \in {"sleep", "close"}
    /\ task' = [task EXCEPT !.st = "ready", !.wait = ""]
    /\ UNCHANGED <<eng, pc, runner, hist, budget, rec, mgr, ws, calls>>

\* run(): the summary is written, then "finally: await self._close_openrouter()"
TaskSummary ==
    /\ Runs("summary")
    /\ task' = closing(task, "done")
    /\ UNCHANGED <<eng, pc, runner, hist, budget, rec, mgr, ws, calls>>

\* the client is closed and the task ends as done or failed, or as cancelled
\* when CancelledError had interrupted it
TaskExit ==
    /\ Runs("closing")
    /\ Becomes(task_over(World, task.exit))
    /\ UNCHANGED <<pc, hist, budget, rec>>

\* CancelledError is thrown into the task where it stands: a task that never
\* ran, or that is interrupted inside its finally, ends at once; otherwise
\* the finally of run() closes the client first
TaskCancelled ==
    /\ task.st = "ready" /\ task.must_cancel
    /\ IF task.at \in {"start", "closing"}
       THEN Becomes(task_over(World, "cancelled"))
       ELSE Becomes([World EXCEPT !.task = closing(@, "cancelled")])
    /\ UNCHANGED <<pc, hist, budget, rec>>

NextCoordinator ==
    \/ Request \/ CallStep \/ Deliver \/ Disconnect \/ ModelAnswers \/ TaskWoken
    \/ TaskStart \/ TaskBlock \/ TaskAdvance \/ TaskForward \/ TaskEventSent
    \/ TaskSnapshotSent \/ TaskEnded \/ TaskResolve \/ TaskCommit \/ TaskSummary
    \/ TaskExit \/ TaskCancelled

SpecCoordinator == InitCoordinator /\ [][NextCoordinator]_vars

\* ------------------------------------------------- the coordinator's claims
\* C11: while the run is paused the runner makes no engine advance and no
\* apply_action and forwards no event, and a model response that arrives
\* during the pause is committed only after resume, for every interleaving
\* of pause and resume with the runner's steps (a resume immediately
\* followed by another pause included).
C11_NothingRunsWhilePaused == ~task.gated_paused

\* -------------------------------------------------- the coordinator, fairly
\* The event loop runs every coroutine that is scheduled, the sleep of run()
\* ends and the client the task closes gets closed.  A send on a websocket
\* and a model call may take for ever.
TaskRuns ==
    \/ TaskStart \/ TaskBlock \/ TaskForward \/ TaskEventSent \/ TaskSnapshotSent
    \/ TaskEnded \/ TaskResolve \/ TaskSummary \/ TaskExit \/ TaskCancelled

\* TaskAdvance and TaskCommit are enabled exactly when the task is scheduled
\* at their statement with the barrier open, and a game takes them finitely
\* often: they are taken fairly when the task does not stay there for ever
TaskEngineRuns ==
    /\ []<>~(Runs("advance") /\ Passes)
    /\ []<>~(Runs("commit") /\ Passes)

InitStopping ==
    /\ eng = EngineInit("s1")
    /\ hist = NoHist(EngineInit("s1"))
    /\ pc = "coordinator"
    /\ runner = RunnerInit
    /\ budget = [NoBudget EXCEPT !.todo = <<Subscribe("w1"), Start("s1"), Pause, Stop>>]
    /\ rec = NoRec
    /\ Constructed

SpecStopping ==
    /\ InitStopping
    /\ [][NextCoordinator]_vars
    /\ WF_vars(CallStep)
    /\ WF_vars(TaskRuns)
    /\ WF_vars(TaskWoken)
    /\ TaskEngineRuns

\* a stop_run call is in progress
Stopping == \E c \in DOMAIN calls : calls[c].op = "stop_run"

\* C12: stop_run always completes, whatever the run is doing when it is
\* called (paused at the barrier, waiting on a model call, sending frames to
\* subscribers), and when it returns no runner task is left alive.
C12_StopRunCompletes == Stopping ~> (~Stopping /\ ~TaskAlive(task))

\* the stop was issued while the outcome of a decision was computed and held
\* at the resume barrier: the task is woken and cancelled before it runs
C13_Witness ==
    /\ task.st = "ready" /\ task.must_cancel /\ task.woken
    /\ task.at = "commit"
    /\ runner.outcome # NoOutcome
    /\ eng.stop_reason = "STOPPED"

\* C13: after stop_run has cancelled the runner no apply_action is performed
\* for the stopped run, even when a decision outcome was computed and waiting
\* at the resume barrier when the stop was issued.
C13_NoApplyAfterStop == ~task.applied_stopped

\* a start_run for another run waits for the task of the current run, which
\* is over by now, while a stop_run waits for the lock
C15_Witness ==
    \E c \in DOMAIN calls :
        /\ calls[c].op = "start_run" /\ calls[c].at = "stopping" /\ calls[c].ready
        /\ mgr.run_id # generate_run_id(calls[c].seed)
        /\ task.st = "cancelled"
        /\ mgr.waiters # <<>>

\* C15: at most one runner task is alive at any time: a start_run that
\* differs from the current run fully stops the current run before the new
\* runner is spawned, under every interleaving of concurrent start_run and
\* stop_run calls.
C15_OneRunnerTask == task.orphans = 0

\* the step in which a start_run that asks for the run that is active gets
\* the lock: as the request arrives, or when the lock is passed to it
IdenticalStartRun(seed) ==
    /\ is_running(mgr, task)
    /\ mgr.run_id = generate_run_id(seed)
    /\ \/ /\ budget.todo # <<>>
          /\ budget'.todo # budget.todo
          /\ Head(budget.todo) = Start(seed)
          /\ mgr.lock = 0
       \/ \E c \in DOMAIN calls :
             /\ calls[c] = [Start(seed) EXCEPT !.at = "locked"]
             /\ c \notin DOMAIN calls'

\* an identical start_run has returned: two start_run calls were made and one
\* run was created, which is still running
C16_Witness ==
    /\ budget.calls = 2 /\ budget.todo = <<Start("s2"), Stop>>
    /\ DOMAIN calls = {}
    /\ mgr.runs = 1
    /\ is_running(mgr, task)
    /\ mgr.returned = mgr.run_id

\* C16: a start_run request identical to the run that is currently active is
\* a no-op: it returns the id of the current run, does not stop or restart
\* the runner, and creates no new run.
C16_IdenticalStartIsNoOp ==
    [][\A seed \in RunSeeds :
          IdenticalStartRun(seed) =>
              /\ mgr'.returned = mgr.run_id
              /\ mgr'.run_id = mgr.run_id /\ mgr'.runs = mgr.runs
              /\ mgr'.runner = mgr.runner /\ mgr'.runner_task = mgr.runner_task
              /\ task' = task /\ eng' = eng /\ runner' = runner]_vars

\* C17: every subscriber receives the HELLO frame and then the latest
\* snapshot as its first two frames; no event or snapshot broadcast reaches a
\* subscriber before those two frames, even when a broadcast runs
\* concurrently with the subscribe call.
C17_HelloThenSnapshotFirst ==
    \A w \in Sockets : ws[w].frames \in {<<>>, <<"HELLO">>, <<"HELLO", "SNAPSHOT">>}

\* C18: the runner's progress never waits on subscriber I/O: the runner task
\* is never suspended until the sends to subscribers complete, so that a
\* subscriber whose send never completes cannot stop it from advancing the
\* engine or applying actions.
C18_RunnerNeverAwaitsSends == ~(task.st = "waiting" /\ task.wait = "sends")

\* the runner task resumes after a broadcast in which some send raised; to,
\* failed and got are the clients of that broadcast
FailedBroadcast ==
    /\ task.at \in {"event_sent", "snapshot_sent"}
    /\ Runs(task.at)
    /\ task.failed # {}

\* a broadcast to two clients is over: one send raised, the other completed
C19_Witness ==
    /\ FailedBroadcast
    /\ task.got # {}
    /\ task.to = task.got \cup task.failed

\* C19: when sending a frame to one subscriber fails, that subscriber is
\* removed, every other subscriber still receives the frame, and the runner
\* continues.
C19_FailedSendEvictsOnlyThatClient ==
    [][(FailedBroadcast /\ task'.at # task.at) =>
          /\ mgr'.clients \cap task.failed = {}
          /\ mgr.clients \ task.failed \subseteq mgr'.clients
          /\ task.got = task.to \ task.failed
          /\ TaskAlive(task') /\ task'.at # "closing"]_vars

\* C20: if the runner task fails with a runtime error, the coordinator sends
\* an ERROR control frame to the subscribers that were following the run
\* (those already sent one of its events) and the run ends, so that the
\* coordinator no longer reports the run as running.
C20_RunnerErrorIsReported ==
    task.st = "failed" =>
        /\ \A w \in mgr.clients :
              "EVENT" \in ws[w].kinds => "ERROR" \in ws[w].kinds
        /\ ~is_running(mgr, task)


\* ------------------------------------------------ the engine's event stream
\* C22: the events the engine returns over a whole run carry the sequence
\* numbers 0, 1, 2, ... with no gap and no repeat, also across apply_action
\* calls that were rejected, and the timestamp of each event is the start
\* timestamp plus its sequence number times the timestamp step.
C22_DenseSequenceNumbers ==
    \A i \in 1..Len(hist.events) :
        /\ hist.events[i].seq = hist.seq_from + i - 1
        /\ hist.events[i].ts_ms = START_TS_MS + hist.events[i].seq * TS_STEP_MS


\* the last call returned a TURN_ENDED and the game goes on
TurnEnded ==
    /\ \E i \in 1..Len(hist.events) : hist.events[i].type = "TURN_ENDED"
    /\ eng.state.phase # "GAME_OVER"

\* the next player in the original order who is not bankrupt
NextInOrder(p) ==
    LET after(k) == ((p - 1 + k) % EXPECTED_PLAYER_COUNT) + 1
        k == CHOOSE k \in 1..EXPECTED_PLAYER_COUNT :
                 /\ ~eng.state.players[after(k)].bankrupt
                 /\ \A j \in 1..(k - 1) : eng.state.players[after(j)].bankrupt
    IN after(k)

\* the player of the turn rolled a double that was not the third in a row
\* and is neither bankrupt nor in jail
EarnedExtraTurn ==
    /\ hist.turn.dice # <<>>
    /\ hist.turn.dice[1] = hist.turn.dice[2]
    /\ hist.turn.streak < 2
    /\ ~eng.state.players[hist.turn.player].bankrupt
    /\ ~eng.state.players[hist.turn.player].in_jail

\* C23 as stated: when a turn ends, the next active player is the same
\* player if and only if that player rolled a double that was not their
\* third in a row (and is neither bankrupt nor in jail); otherwise it is the
\* next non-bankrupt player in the original player order.
C23_TurnRotation_Stated ==
    TurnEnded =>
        eng.state.active_player_id =
            IF EarnedExtraTurn THEN hist.turn.player ELSE NextInOrder(hist.turn.player)

\* C23: when a turn ends, the next active player is the same player if and
\* only if that player rolled a double with the turn's own dice roll (not
\* with a roll_for_doubles made from jail) that was not their third in a
\* row, and is neither bankrupt nor in jail; otherwise it is the next
\* non-bankrupt player in the original player order.
C23_TurnRotation ==
    TurnEnded =>
        eng.state.active_player_id =
            IF EarnedExtraTurn /\ ~hist.turn.release
            THEN hist.turn.player ELSE NextInOrder(hist.turn.player)

\* a turn ended after a double that earned the same player the next turn
C23_Witness ==
    /\ TurnEnded
    /\ EarnedExtraTurn /\ ~hist.turn.release
    /\ eng.state.active_player_id = hist.turn.player


\* the TURN_ENDED events among the events the last call returned
TurnEnds == Cardinality({i \in 1..Len(hist.events) : hist.events[i].type = "TURN_ENDED"})

\* C24: every TURN_STARTED event is followed by exactly one TURN_ENDED event
\* before the next TURN_STARTED or GAME_ENDED; the turn index increases by
\* exactly one at each turn end and at no other time, so the decisions
\* chained inside one turn all carry the same turn index.
C24_TurnsArePaired ==
    /\ ~hist.turn.unpaired
    /\ ~hist.turn.strayed
    /\ hist.op # "" => eng.state.turn_index = hist.pre.state.turn_index + TurnEnds


\* the last call rolled the third double in a row of the turn's player
ThirdDouble ==
    /\ \E i \in 1..Len(hist.events) : hist.events[i].type = "DICE_ROLLED"
    /\ hist.turn.dice[1] = hist.turn.dice[2]
    /\ hist.turn.streak = 2
    /\ ~hist.turn.release

\* what the third double does apart from the events of the move
JailedForDoubles ==
    /\ eng.state.players[hist.turn.player].in_jail
    /\ eng.state.players[hist.turn.player].position = Jail_index
    /\ eng.state.players[hist.turn.player].doubles_count = 0
    /\ \E i \in 1..Len(hist.events) :
          /\ hist.events[i].type = "SENT_TO_JAIL"
          /\ hist.events[i].payload.reason = "THREE_DOUBLES"
    /\ TurnEnds = 1
    /\ eng.state.phase # "GAME_OVER" => eng.state.active_player_id # hist.turn.player

\* C25: a player who rolls their third consecutive double is sent to jail
\* with reason THREE_DOUBLES, their doubles streak is reset to zero, the turn
\* ends with no extra turn, and no PLAYER_MOVED event is emitted for that
\* roll.
C25_ThirdDoubleGoesToJail ==
    ThirdDouble => (JailedForDoubles /\ ~hist.turn.moved)


\* ------------------------------------------------ liquidation and bankruptcy
\* the last call applied a mortgage or a sale to a liquidation decision
Liquidated ==
    /\ hist.op = "apply" /\ eng.err = ""
    /\ hist.pre.pending_decision.decision_type = "LIQUIDATION_DECISION"
    /\ hist.action.action \in {"mortgage_property", "sell_houses_or_hotel"}

Debtor == hist.pre.pending_decision.player_id
Owed == hist.pre.pending_payment.payment
Creditor == hist.pre.pending_payment.payment.to_player_id

\* what the mortgage or the sale brought in: the cash the debtor received
RECURSIVE Received(_, _)
Received(events, pid) ==
    IF events = <<>> THEN 0
    ELSE (IF /\ Head(events).type = "CASH_CHANGED"
             /\ Head(events).payload.player_id = pid
             /\ Head(events).payload.a > 0
          THEN Head(events).payload.a ELSE 0) + Received(Tail(events), pid)

CashRaised == hist.pre.state.players[Debtor].cash + Received(hist.events, Debtor)

\* the player has a building to sell or a property that is not mortgaged
CanRaise(board, pid, except) ==
    \E i \in Spaces \ except :
        /\ board[i].owner_id = pid
        /\ (board[i].houses > 0 \/ board[i].hotel \/ ~board[i].mortgaged)

\* the spaces the last call mortgaged or sold buildings of
Touched ==
    {hist.events[i].payload.a : i \in {j \in 1..Len(hist.events) :
        hist.events[j].type \in {"PROPERTY_MORTGAGED", "HOUSE_SOLD", "HOTEL_SOLD"}}}

PaidInFull ==
    /\ ~eng.state.players[Debtor].bankrupt
    /\ ~eng.pending_payment.present
    /\ eng.state.players[Debtor].cash = CashRaised - Owed.amount
    /\ Creditor # NoPlayer =>
          eng.state.players[Creditor].cash = hist.pre.state.players[Creditor].cash + Owed.amount

AskedAgain ==
    /\ eng.pending_decision.decision_type = "LIQUIDATION_DECISION"
    /\ eng.pending_decision.player_id = Debtor
    /\ eng.pending_decision.decision_id # hist.pre.pending_decision.decision_id
    /\ eng.pending_payment = hist.pre.pending_payment
    /\ ~eng.state.players[Debtor].bankrupt
    /\ eng.state.players[Debtor].cash = CashRaised

WentBankrupt ==
    /\ eng.state.players[Debtor].bankrupt
    /\ eng.state.players[Debtor].bankrupt_to = Creditor
    /\ eng.pending_decision.player_id # Debtor

\* C26: each mortgage or sale made in a liquidation decision is followed by
\* a solvency re-check: if the player can now pay, the full amount owed is
\* paid to the creditor; if not and some asset can still be mortgaged or
\* sold, a new liquidation decision is issued; if not and nothing can be
\* raised, the player goes bankrupt to that creditor.
C26_LiquidationProtocol ==
    Liquidated =>
        IF CashRaised >= Owed.amount THEN PaidInFull
        ELSE IF CanRaise(eng.state.board, Debtor, {}) THEN AskedAgain
        ELSE /\ WentBankrupt
             /\ hist.action.action = "mortgage_property"
             /\ ~CanRaise(hist.pre.state.board, Debtor, Touched)

\* a second mortgage in a row still left the debtor short, and the debtor
\* went bankrupt to the creditor
C26_Witness ==
    /\ Liquidated
    /\ hist.pre.state.board[1].mortgaged
    /\ CashRaised < Owed.amount
    /\ WentBankrupt
    /\ Creditor # NoPlayer


\* the players the last call made bankrupt
NewlyBankrupt ==
    {p \in Players : eng.err = "" /\ ~hist.pre.state.players[p].bankrupt
                                  /\ eng.state.players[p].bankrupt}

\* the creditor has the debtor's remaining cash and the debtor's properties,
\* the mortgaged ones still mortgaged
TookCashAndProperties(p, c) ==
    /\ eng.state.players[p].cash = 0
    /\ eng.state.players[c].cash =
          hist.pre.state.players[c].cash + hist.pre.state.players[p].cash
          + Received(hist.events, p)
    /\ \A i \in Spaces :
          hist.pre.state.board[i].owner_id = p =>
              /\ eng.state.board[i].owner_id = c
              /\ eng.state.board[i].mortgaged =
                     (hist.pre.state.board[i].mortgaged \/ i \in Touched)

\* the creditor has the debtor's get-out-of-jail cards
TookJailCards(p, c) ==
    /\ eng.state.players[p].get_out_of_jail_cards = 0
    /\ eng.state.players[c].get_out_of_jail_cards =
          hist.pre.state.players[c].get_out_of_jail_cards
          + hist.pre.state.players[p].get_out_of_jail_cards

\* C27: when a player goes bankrupt to another player, the creditor receives
\* all of the debtor's remaining cash, all of the debtor's properties
\* (mortgaged ones stay mortgaged) and all of the debtor's get-out-of-jail
\* cards.
C27_CreditorTakesEverything ==
    \A p \in NewlyBankrupt :
        eng.state.players[p].bankrupt_to # NoPlayer =>
            /\ TookCashAndProperties(p, eng.state.players[p].bankrupt_to)
            /\ TookJailCards(p, eng.state.players[p].bankrupt_to)


\* the bank has released the debtor's properties
ReleasedProperties(p) ==
    \A i \in Spaces :
        hist.pre.state.board[i].owner_id = p =>
            /\ eng.state.board[i].owner_id = NoPlayer
            /\ ~eng.state.board[i].mortgaged

\* the debtor's get-out-of-jail cards are back at the bottom of a deck
ReturnedJailCards(p) ==
    /\ eng.state.players[p].get_out_of_jail_cards = 0
    /\ eng.jail_card_sources[p] = <<>>
    /\ hist.pre.state.players[p].get_out_of_jail_cards > 0 =>
          \/ eng.chance_deck[Len(eng.chance_deck)] = "GET_OUT_OF_JAIL_FREE"
          \/ eng.community_chest_deck[Len(eng.community_chest_deck)] = "GET_OUT_OF_JAIL_FREE"

\* C28: when a player goes bankrupt to the bank, all of their properties
\* become unowned with mortgages cleared, and their get-out-of-jail cards
\* are returned to the bottom of the decks they came from.
C28_BankReleasesEverything ==
    \A p \in NewlyBankrupt :
        eng.state.players[p].bankrupt_to = NoPlayer =>
            (ReleasedProperties(p) /\ ReturnedJailCards(p))


\* C29: in every state the engine exposes, a bankrupt player has zero cash,
\* owns no space, and is not the active player.
C29_BankruptHasNothing ==
    \A p \in Players :
        eng.state.players[p].bankrupt =>
            /\ eng.state.players[p].cash = 0
            /\ \A i \in Spaces : eng.state.board[i].owner_id # p
            /\ eng.state.active_player_id # p

\* a player who held cash and properties went bankrupt and the game goes on
C29_Witness ==
    \E p \in NewlyBankrupt :
        /\ hist.pre.state.players[p].cash > 0
        /\ \E i \in Spaces : hist.pre.state.board[i].owner_id = p
        /\ hist.pre.state.active_player_id = p
        /\ eng.state.phase # "GAME_OVER"


\* ----------------------------------------------------------- the bank's stock
HousesOnBoard(board) ==
    SumOver({i \in Spaces : board[i].houses > 0}, [i \in Spaces |-> board[i].houses])
HotelsOnBoard(board) == Cardinality({i \in Spaces : board[i].hotel})

\* C30 as stated: houses in the bank, four times the hotels in the bank, the
\* houses on the spaces and five times the spaces holding a hotel add up to
\* 32 + 12*5.
C30_BankConservation_Stated ==
    eng.state.bank.houses_remaining + 4 * eng.state.bank.hotels_remaining
        + HousesOnBoard(eng.state.board) + 5 * HotelsOnBoard(eng.state.board)
    = DEFAULT_HOUSES + DEFAULT_HOTELS * 5

\* C30: the houses in the bank and on the spaces are always 32 and the hotels
\* in the bank and on the spaces are always 12 (so houses plus five times the
\* hotels, bank and board together, are 32 + 12*5).
C30_BankConservation ==
    /\ eng.state.bank.houses_remaining + HousesOnBoard(eng.state.board) = DEFAULT_HOUSES
    /\ eng.state.bank.hotels_remaining + HotelsOnBoard(eng.state.board) = DEFAULT_HOTELS
    /\ eng.state.bank.houses_remaining + 5 * eng.state.bank.hotels_remaining
           + HousesOnBoard(eng.state.board) + 5 * HotelsOnBoard(eng.state.board)
       = DEFAULT_HOUSES + DEFAULT_HOTELS * 5

\* a call that built or sold a hotel, or released one to the bank
C30_Witness ==
    /\ hist.op = "apply" /\ eng.err = ""
    /\ HotelsOnBoard(eng.state.board) # HotelsOnBoard(hist.pre.state.board)


\* --------------------------------------------------------- the decision log
\* the places of the trail where the runner did `what` about decision id
StepsOf(what, id) ==
    {k \in 1..Len(runner.trail) :
        runner.trail[k].what = what /\ runner.trail[k].decision_id = id}

TrailIds == {runner.trail[k].decision_id : k \in 1..Len(runner.trail)}

\* C21: decision records come in pairs per decision id: each id has at most
\* one decision_started and at most one decision_resolved record, the
\* started record is written before the model is called, the resolved
\* record only after the engine has applied the action, and every decision
\* whose action was applied has both records.
C21_DecisionRecordsPaired ==
    \A id \in TrailIds \cup runner.applied_decision_ids :
        /\ Cardinality(StepsOf("decision_started", id)) <= 1
        /\ Cardinality(StepsOf("decision_resolved", id)) <= 1
        /\ \A k \in StepsOf("request", id) :
              \E j \in StepsOf("decision_started", id) : j < k
        /\ \A k \in StepsOf("decision_resolved", id) :
              /\ \E j \in StepsOf("applied", id) : j < k
              /\ \E j \in StepsOf("decision_started", id) : j < k
        /\ (id \in runner.applied_decision_ids \/ StepsOf("applied", id) # {}) =>
              /\ StepsOf("decision_started", id) # {}
              /\ StepsOf("decision_resolved", id) # {}

\* two decisions were applied, one of them after a second request
C21_Witness ==
    /\ Cardinality(runner.applied_decision_ids) >= 2
    /\ \E id \in runner.applied_decision_ids :
          Cardinality(StepsOf("request", id)) = 2
    /\ pc = "attempt"


\* ------------------------------------------------------------ even building
\* the building level of a space, a hotel counting as 5
Level(space) == IF space.hotel THEN 5 ELSE space.houses

ColorGroups ==
    {SpaceGroup(i) : i \in {j \in Spaces : SpaceKind(j) = "PROPERTY"}}
        \ {"", "RAILROAD", "UTILITY"}

Even(levels) ==
    \A g \in ColorGroups : \A i, j \in GROUP_INDEXES(g) : levels[i] - levels[j] <= 1

\* the levels the spaces would have were every item of the plan carried out
RECURSIVE Planned(_, _, _)
Planned(levels, plan, building) ==
    IF plan = <<>> THEN levels
    ELSE LET item == Head(plan)
             i == space_index_from_key(item.space_key)
             by == IF item.kind = "HOTEL" THEN 1 ELSE item.count
         IN Planned([levels EXCEPT ![i] = IF building THEN @ + by ELSE @ - by],
                    Tail(plan), building)

\* the last call asked to build or to sell on spaces of the board
PlanCalled ==
    /\ hist.op = "apply"
    /\ hist.action.action \in {"build_houses_or_hotel", "sell_houses_or_hotel"}
    /\ hist.action.args.plan # <<>>
    /\ \A k \in 1..Len(hist.action.args.plan) :
          space_index_from_key(hist.action.args.plan[k].space_key) \in Spaces

PlanBreaksEvenness ==
    ~Even(Planned([i \in Spaces |-> Level(hist.pre.state.board[i])],
                  hist.action.args.plan,
                  hist.action.action = "build_houses_or_hotel"))

\* C31: after every applied action, within any color group the building
\* levels of its spaces differ by at most one, counting a hotel as level 5;
\* a build or sell plan that would break this is rejected.
C31_EvenBuilding ==
    /\ Even([i \in Spaces |-> Level(eng.state.board[i])])
    /\ (PlanCalled /\ PlanBreaksEvenness) =>
          /\ eng.err # ""
          /\ eng.state.board = hist.pre.state.board

\* a plan that would leave a group uneven was rejected for that
C31_Witness ==
    /\ PlanCalled /\ PlanBreaksEvenness
    /\ eng.err # ""
    /\ \E i \in Spaces : Level(eng.state.board[i]) > 0


\* ---------------------------------------------------------- the cash ledger
\* the sum of the deltas of the CASH_CHANGED events for a player
RECURSIVE CashDeltas(_, _)
CashDeltas(events, pid) ==
    IF events = <<>> THEN 0
    ELSE (IF Head(events).type = "CASH_CHANGED" /\ Head(events).payload.player_id = pid
          THEN Head(events).payload.a ELSE 0) + CashDeltas(Tail(events), pid)

\* C32: each player's cash is the starting cash plus the deltas of all the
\* CASH_CHANGED events emitted for that player: every call changes a
\* player's cash by exactly the deltas of the CASH_CHANGED events it returns
\* for that player, and by nothing when it returns none.
C32_CashConservation ==
    \A p \in Players :
        eng.state.players[p].cash
            = hist.pre.state.players[p].cash + CashDeltas(hist.events, p)

\* a call that moved cash from one player to another
C32_Witness ==
    \E p, q \in Players :
        /\ CashDeltas(hist.events, p) < 0
        /\ CashDeltas(hist.events, q) > 0
        /\ eng.state.players[p].cash # hist.pre.state.players[p].cash


\* ------------------------------------------------------- the jail decision
JailDecisionPending == eng.pending_decision.decision_type = "JAIL_DECISION"
JailOffers(name) == name \in SeqToSet(eng.pending_decision.legal_actions)
Jailed == eng.state.players[eng.pending_decision.player_id]

\* C33: in a jail decision, use_get_out_of_jail_card is offered if and only
\* if the player holds at least one such card, pay_jail_fine is offered only
\* when the player can afford the fine, and roll_for_doubles is no longer
\* offered after the third failed attempt.
C33_JailOptions ==
    JailDecisionPending =>
        /\ JailOffers("use_get_out_of_jail_card") <=> Jailed.get_out_of_jail_cards > 0
        /\ JailOffers("pay_jail_fine") => Jailed.cash >= JAIL_FINE
        /\ Jailed.jail_turns >= 3 => ~JailOffers("roll_for_doubles")


\* --------------------------------------------------------------- auctions
\* the last call applied start_auction to a buy-or-auction decision
AuctionAsked ==
    /\ hist.op = "apply" /\ eng.err = ""
    /\ hist.pre.pending_decision.decision_type = "BUY_OR_AUCTION_DECISION"
    /\ hist.action.action = "start_auction"

\* C34: applying start_auction in a buy-or-auction decision starts an
\* auction for that space: the space stays unowned, an auction is recorded
\* in the game state, an AUCTION_STARTED event is emitted, and the same call
\* returns an auction bid decision.
C34_StartAuctionStartsAuction ==
    AuctionAsked =>
        /\ eng.state.board[hist.pre.pending_turn.space_index].owner_id = NoPlayer
        /\ eng.state.auction # NoAuction
        /\ \E k \in 1..Len(hist.events) : hist.events[k].type = "AUCTION_STARTED"
        /\ eng.pending_decision.decision_type = "AUCTION_BID_DECISION"


\* ------------------------------------------------- the model client, called
\* One call of create_chat_completion on the runner's client, the server
\* answering each request in any of the ways it can.
InitClient ==
    /\ eng = EngineInit("s1")
    /\ hist = NoHist(EngineInit("s1"))
    /\ pc = "client"
    /\ \E api_key \in BOOLEAN : runner = [RunnerInit EXCEPT !.openrouter = ClientInit(api_key)]
    /\ budget = NoBudget
    /\ rec = NoRec
    /\ Constructed

\* the runner calls the client, with reasoning when the player configures it
\* (llm_runner.py, "if player_config.reasoning is not None")
ClientCall ==
    /\ runner.openrouter.at = "idle"
    /\ \E reasoning \in BOOLEAN :
          runner' = [runner EXCEPT !.openrouter = create_chat_completion_called(@, reasoning)]
    /\ UNCHANGED <<eng, pc, hist, budget, rec, mgr, task, ws, calls>>

\* "response = await self._client.post(...)" and what the pass does with it
ClientPost ==
    /\ runner.openrouter.at = "post"
    /\ \E response \in Responses, jitter \in Jitters :
          runner' = [runner EXCEPT !.openrouter = post_answered(@, response, jitter)]
    /\ UNCHANGED <<eng, pc, hist, budget, rec, mgr, task, ws, calls>>

\* "await asyncio.sleep(self._backoff_delay(attempt)); continue"
ClientWake ==
    /\ runner.openrouter.at = "sleep"
    /\ runner' = [runner EXCEPT !.openrouter.at = "post", !.openrouter.attempt = @ + 1]
    /\ UNCHANGED <<eng, pc, hist, budget, rec, mgr, task, ws, calls>>

NextClient == ClientCall \/ ClientPost \/ ClientWake

SpecClient == InitClient /\ [][NextClient]_vars

Retryable(response) ==
    response.kind # "http" \/ response.status = 429
        \/ (500 <= response.status /\ response.status < 600)

\* C35: one create_chat_completion call sends at most three HTTP requests:
\* it retries only after an HTTP 429, an HTTP 5xx or a network error, at most
\* two times; other failures (other 4xx status, unparsable response body,
\* missing API key) are returned without a retry; the call always ends with
\* a result that is either a success or a classified error.
C35_BoundedRetries ==
    LET c == runner.openrouter
    IN /\ c.requests <= 3
       /\ Len(c.slept) <= 2
       /\ \A k \in 1..Len(c.answers) :
             (k < Len(c.answers) \/ c.at \in {"sleep", "post"}) => Retryable(c.answers[k])
       /\ ~c.api_key => c.requests = 0
       /\ c.at # "raised"
       /\ c.at = "returned" =>
             \/ c.result.ok
             \/ c.result.error_type \in {"http_429", "http_5xx", "http_4xx", "network_error",
                                        "invalid_json", "no_api_key"}


\* C36: every change to the coordinator's subscriber set (adding on
\* subscribe, removing on unsubscribe, removing a failed subscriber during a
\* broadcast) happens while the coordinator's lock is held.
C36_SubscribersChangeUnderLock ==
    [][mgr'.clients # mgr.clients => mgr.lock # 0]_vars


\* C37: no player's cash is negative in any state the engine exposes,
\* whatever actions are applied (paying the jail fine, buying, unmortgaging,
\* building, card payments and rent included).
C37_CashNeverNegative ==
    \A p \in Players : eng.state.players[p].cash >= 0

\* a player who stays in the game paid and is left with less than a jail fine
C37_Witness ==
    /\ hist.op # "" /\ eng.err = ""
    /\ \E p \in Players :
          /\ ~eng.state.players[p].bankrupt
          /\ eng.state.players[p].cash < JAIL_FINE
          /\ \E k \in 1..Len(hist.events) :
                /\ hist.events[k].type = "CASH_CHANGED"
                /\ hist.events[k].payload.player_id = p
                /\ hist.events[k].payload.a < 0


\* C38: every decision the engine returns has at least one legal action, so
\* a pending decision can always be resolved (a jailed player who fails the
\* third roll and cannot afford the fine is not asked anything).
C38_DecisionsHaveActions ==
    eng.pending_decision # NoDecision => eng.pending_decision.legal_actions # <<>>

\* a jailed player failed the third roll short of the fine: no decision is
\* pending for that player
C38_Witness ==
    /\ hist.op = "apply" /\ eng.err = ""
    /\ hist.action.action = "roll_for_doubles"
    /\ hist.pre.state.players[hist.pre.pending_decision.player_id].jail_turns = 2
    /\ hist.pre.state.players[hist.pre.pending_decision.player_id].cash < JAIL_FINE
    /\ eng.state.players[hist.pre.pending_decision.player_id].in_jail = FALSE
    /\ eng.pending_decision.player_id # hist.pre.pending_decision.player_id


InitPlay ==
    /\ \E sc \in Scenarios, seed \in Seeds :
          /\ eng = ScenarioEngine(sc, seed)
          /\ hist = NoHist(ScenarioEngine(sc, seed))
    /\ pc = "play"
    /\ runner = RunnerInit
    /\ budget = NoBudget
    /\ rec = NoRec
    /\ Constructed

PlayAdvance ==
    /\ pc = "play"
    /\ eng.pending_decision = NoDecision
    /\ Stored("advance", NoAction, advance_until_decision(eng))
    /\ pc' = "called"
    /\ UNCHANGED <<runner, budget, rec, mgr, task, ws, calls>>

PlayAnswer ==
    /\ pc = "play"
    /\ eng.pending_decision # NoDecision
    /\ \E name \in SeqToSet(eng.pending_decision.legal_actions) :
          Stored("apply",
                 Action(eng.pending_decision.decision_id, name,
                        GoodArgs(eng.pending_decision, name)),
                 apply_action(eng, Action(eng.pending_decision.decision_id, name,
                                          GoodArgs(eng.pending_decision, name)), NoMeta))
    /\ pc' = "called"
    /\ UNCHANGED <<runner, budget, rec, mgr, task, ws, calls>>

\* while not engine.is_game_over()
PlayLoop ==
    /\ pc = "called"
    /\ pc' = IF is_game_over(eng) THEN "done" ELSE "play"
    /\ UNCHANGED <<eng, hist, runner, budget, rec, mgr, task, ws, calls>>

NextPlay == PlayAdvance \/ PlayAnswer \/ PlayLoop

\* the loop goes on: its test is taken, and a call on the engine returns
SpecPlay ==
    /\ InitPlay
    /\ [][NextPlay]_vars
    /\ WF_vars(PlayLoop)
    /\ []<>(pc # "play")

\* the turn index never exceeds max_turns, GAME_ENDED is emitted at most
\* once, it is the last event of its call and no event is emitted after it;
\* the game is over exactly when GAME_ENDED has been emitted, and no legal
\* answer is refused
GameEndsOnce ==
    /\ eng.state.turn_index <= eng.max_turns
    /\ hist.games_ended <= 1
    /\ ~hist.late
    /\ eng.err = ""
    /\ is_game_over(eng) <=> hist.games_ended = 1

\* C40: when every decision is answered with a legal action, the game
\* reaches GAME_OVER after a bounded number of steps: the turn index never
\* exceeds max_turns, GAME_ENDED is emitted exactly once, it is the last
\* event, and no event is emitted after it.
C40_GameEnds ==
    /\ []GameEndsOnce
    /\ <>[](pc = "done" /\ is_game_over(eng) /\ hist.games_ended = 1)

\* the game ended at the turn limit after decisions were answered, and the
\* loop has ended
C40_Witness ==
    /\ pc = "done"
    /\ is_game_over(eng)
    /\ eng.state.turn_index = eng.max_turns
    /\ hist.games_ended = 1
    /\ hist.ended = "TURN_LIMIT"
====
